---- MODULE Spec2Model ----
(***************************************************************************)
(* A model of kasu ("ks"): the directory scan and tree view with their     *)
(* include / exclude matchers, the sanitizer, head / tail windowing and    *)
(* the command line's validation.                                          *)
(*                                                                         *)
(* Text is a sequence of one-character strings.  A path is the sequence of *)
(* its root-relative components.                                           *)
(***************************************************************************)
EXTENDS Integers, Sequences, FiniteSets, TLC

VARIABLES
    fs,              \* the directory tree: path -> kind of the entry
    includePatterns, \* GlobFilter.patterns (a set of patterns; {} = none given)
    excludePatterns, \* IgnoreFilter's combined patterns
    filters,         \* FileScanner.filters, a sequence of filter class names
    stats,           \* FileScanner.stats
    scanResult,      \* the list scan returned last (paths of the records)
    scanEvaluated,   \* paths handed to a filter's should_include by the last scan
    scanCalls,       \* number of scan calls made so far
    treeLines,       \* the entries TreeBuilder.build rendered, in order
    treeEvaluated,   \* paths handed to a filter by the last build
    treeBuilt,       \* whether build has run
    content,         \* the text handed to Sanitizer.sanitize
    autoOn,          \* Sanitizer.enable_auto_sanitize
    sanText,         \* the text sanitize returned
    sanStats,        \* the stats sanitize returned: label -> count
    sanOrders,       \* the order in which each detector enumerated its set
    sanDone,         \* whether sanitize has returned
    customRules,     \* Sanitizer.custom_replacements: (pattern, replacement) pairs
    fileContent,     \* the text of the file a generator is windowing
    headLines,       \* generate's head_lines: <<>> for None, <<n>> for n
    tailLines,       \* generate's tail_lines, likewise
    windowed,        \* the file's text after windowing
    windowDone,      \* whether the windowing has run
    argv,            \* the options as given on the command line ("None", <<>>: not given)
    args,            \* main's argparse namespace (the options modelled)
    config,          \* the configuration file's keys (<<>>, "None": no key)
    pc,              \* main's position
    exitStatus,      \* <<>> while running, <<n>> once exited with status n
    scanStarted,     \* whether Merger.merge has called the scanner
    mergeArgs,       \* the parameters of one Merger.merge call
    mergePc,         \* merge's position
    mergeLog,        \* what merge has done so far, in order
    mergeAnswer,     \* the answer typed at the confirmation prompt
    mergeExit,       \* <<>>, or <<n>> once sys.exit(n) was called
    destState,       \* what the output file holds: previous, truncated, written
    destSeen,        \* what it held each time the run looked at the source files
    destHandle,      \* the file object of the output file: none, open, closed
    genFiles,        \* generate's target_files: records of path, text and what reading does
    genHead,         \* generate's head_lines: <<>> for None, <<n>> for n
    genTail,         \* generate's tail_lines, likewise
    genSanitize,     \* generate's enable_sanitize
    genMerge,        \* generate's include_merge
    genIndex,        \* how many records the loop has handled
    genParts,        \* content_parts, the strings appended so far
    genStats,        \* all_stats: label -> count
    genChoice,       \* what sanitize made of each text in this process
    genWarnings,     \* the paths warned about on stderr, in order
    genOutput,       \* the content generate returned
    genDone,         \* whether generate has returned
    infoFiles,       \* the files scan has accepted: size, text, what stat and open do
    infoIndex,       \* how many of them _get_file_info has been called for
    infoRecords,     \* target_files: the records appended so far
    asked,           \* <<>>, or the should_include call made: filter, path, verdict
    returned,        \* the dictionaries get_stats returned, in order, as their callers hold them
    autoArgs,        \* main's args: no_auto_ignore, ignore_file, exclude
    gitignoreLines,  \* the patterns the source root's .gitignore holds
    autoVcs,         \* main's auto_vcs_ignore
    autoPc           \* main's position: start, built, scanned

scanVars == <<fs, includePatterns, excludePatterns, filters, stats, scanResult,
              scanEvaluated, scanCalls, treeLines, treeEvaluated, treeBuilt>>

sanVars == <<content, autoOn, sanText, sanStats, sanOrders, sanDone, customRules>>

winVars == <<fileContent, headLines, tailLines, windowed, windowDone>>

cliVars == <<argv, args, config, pc, exitStatus, scanStarted>>

mergeVars == <<mergeArgs, mergePc, mergeLog, mergeAnswer, mergeExit, destState, destSeen,
               destHandle>>

destVars == <<destState, destSeen, destHandle>>

genVars == <<genFiles, genHead, genTail, genSanitize, genMerge, genIndex, genParts, genStats,
             genChoice, genWarnings, genOutput, genDone>>

infoVars == <<infoFiles, infoIndex, infoRecords>>

probeVars == <<asked>>

rescanVars == <<returned>>

autoVars == <<autoArgs, gitignoreLines, autoVcs, autoPc>>

vars == <<scanVars, sanVars, winVars, cliVars, mergeVars, genVars, infoVars, probeVars, rescanVars, autoVars>>

\* What the actions of one component leave alone: the other components.
exceptScan == <<sanVars, winVars, cliVars, mergeVars, genVars, infoVars, probeVars, rescanVars, autoVars>>

exceptSan == <<scanVars, winVars, cliVars, mergeVars, genVars, infoVars, probeVars, rescanVars, autoVars>>

exceptWin == <<scanVars, sanVars, cliVars, mergeVars, genVars, infoVars, probeVars, rescanVars, autoVars>>

exceptCli == <<scanVars, sanVars, winVars, mergeVars, genVars, infoVars, probeVars, rescanVars, autoVars>>

exceptMerge == <<scanVars, sanVars, winVars, cliVars, genVars, infoVars, probeVars, rescanVars, autoVars>>

exceptGen == <<scanVars, sanVars, winVars, cliVars, mergeVars, infoVars, probeVars, rescanVars, autoVars>>

exceptInfo == <<scanVars, sanVars, winVars, cliVars, mergeVars, genVars, probeVars, rescanVars, autoVars>>

exceptProbe == <<scanVars, sanVars, winVars, cliVars, mergeVars, genVars, infoVars, rescanVars, autoVars>>

exceptRescan == <<scanVars, sanVars, winVars, cliVars, mergeVars, genVars, infoVars, probeVars, autoVars>>

exceptAuto == <<scanVars, sanVars, winVars, cliVars, mergeVars, genVars, infoVars, probeVars, rescanVars>>

\* The sanitizer before it is given anything.
SanIdle ==
    /\ content = <<>>
    /\ autoOn = FALSE
    /\ customRules = <<>>
    /\ sanText = <<>>
    /\ sanStats = <<>>
    /\ sanOrders = <<>>
    /\ sanDone = FALSE

\* A generator before it is given a file.
WinIdle ==
    /\ fileContent = <<>>
    /\ headLines = <<>>
    /\ tailLines = <<>>
    /\ windowed = <<>>
    /\ windowDone = FALSE

\* The command line before it is run.
CliIdle ==
    /\ argv = <<>>
    /\ args = <<>>
    /\ config = <<>>
    /\ pc = "idle"
    /\ exitStatus = <<>>
    /\ scanStarted = FALSE

\* A merger before merge is called.
MergeIdle ==
    /\ mergeArgs = [output_file |-> "None", to_stdout |-> FALSE, show_tree |-> FALSE,
                    show_list |-> FALSE, show_stats |-> FALSE, skip_confirm |-> FALSE,
                    found |-> FALSE]
    /\ mergePc = "idle"
    /\ mergeLog = <<>>
    /\ mergeAnswer = <<>>
    /\ mergeExit = <<>>
    /\ destState = "previous"
    /\ destSeen = <<>>
    /\ destHandle = "none"

\* The generator before generate is called.
GenIdle ==
    /\ genFiles = <<>>
    /\ genHead = <<>>
    /\ genTail = <<>>
    /\ genSanitize = FALSE
    /\ genMerge = TRUE
    /\ genIndex = 0
    /\ genParts = <<>>
    /\ genStats = <<>>
    /\ genChoice = <<>>
    /\ genWarnings = <<>>
    /\ genOutput = <<>>
    /\ genDone = TRUE

\* The scanner's records before a scan.
InfoIdle ==
    /\ infoFiles = <<>>
    /\ infoIndex = 0
    /\ infoRecords = <<>>

\* No filter asked outside a scan.
ProbeIdle ==
    /\ asked = <<>>

\* No statistics asked for.
RescanIdle ==
    /\ returned = <<>>

\* main before it decides on the ignore files.
AutoIdle ==
    /\ autoArgs = <<>>
    /\ gitignoreLines = {}
    /\ autoVcs = FALSE
    /\ autoPc = "idle"

----------------------------------------------------------------------------
(* Generic helpers *)

Range(s) == {s[i] : i \in 1..Len(s)}

Min(a, b) == IF a < b THEN a ELSE b

Max(a, b) == IF a < b THEN b ELSE a

----------------------------------------------------------------------------
(* The directory tree *)

\* Bound: each exclude / include pattern set holds at most this many patterns.
MaxPatterns == 2

\* The entries a tree may hold, by root-relative path.
Universe ==
    { <<".gitignore">>, <<"a.py">>, <<"b.log">>, <<"pkg">>,
      <<"pkg", "a.py">>, <<"pkg", "b.log">>, <<"pkg", "sub">>,
      <<"pkg", "sub", "a.py">> }

\* sorted(os.listdir(...)) order of the names.
NameOrder == <<".gitignore", "a.py", "b.log", "pkg", "sub">>

\* The file extension of a name ("" when it has none).
Ext(name) ==
    CASE name = "a.py" -> "py"
      [] name = "b.log" -> "log"
      [] OTHER -> ""

\* What each entry may be where its directory exists: absent, a plain text
\* file, a plain binary file, a symbolic link to a file, a directory, a
\* symbolic link to a directory.
KindsAt(p) ==
    CASE p = <<".gitignore">> -> {"none", "file"}
      [] p = <<"a.py">> -> {"none", "file", "linkfile"}
      [] p = <<"b.log">> -> {"file", "binfile"}
      [] p = <<"pkg">> -> {"none", "dir", "linkdir"}
      [] p = <<"pkg", "a.py">> -> {"none", "file"}
      [] p = <<"pkg", "b.log">> -> {"file", "linkfile"}
      [] p = <<"pkg", "sub">> -> {"none", "dir"}
      [] p = <<"pkg", "sub", "a.py">> -> {"none", "file"}

Parent(p) == SubSeq(p, 1, Len(p) - 1)

\* An entry exists only inside a directory or behind a link to one.
WellFormed(f) ==
    \A p \in Universe :
        (f[p] # "none" /\ Len(p) > 1) => f[Parent(p)] \in {"dir", "linkdir"}

\* The trees there are, a .gitignore in the root or not.
AllTrees == {f \in [Universe -> {"none", "file", "binfile", "linkfile", "dir", "linkdir"}] :
               /\ \A p \in Universe : f[p] \in KindsAt(p) \cup {"none"}
               /\ \A p \in Universe : f[p] = "none" =>
                       ("none" \in KindsAt(p) \/ (Len(p) > 1 /\ f[Parent(p)] = "none"))
               /\ WellFormed(f)}

\* The trees without a .gitignore.
Trees == {f \in AllTrees : f[<<".gitignore">>] = "none"}

\* Entries on another drive than the base directory's: a file and a
\* directory.
OtherDrive == {<<"D:", "b.log">>, <<"D:", "pkg">>}

\* os.path.relpath(path, base_dir) raises ValueError: no relative path leads
\* from one drive to another.
RelpathRaises(p) == p \in OtherDrive

isdir(p) ==
    \/ p = <<>>
    \/ p \in Universe /\ fs[p] \in {"dir", "linkdir"}
    \/ p = <<"D:", "pkg">>

isfile(p) == p \in Universe /\ fs[p] \in {"file", "binfile", "linkfile"}

islink(p) == p \in Universe /\ fs[p] \in {"linkfile", "linkdir"}

\* The names in a directory, in listing order.
Listing(d) ==
    SelectSeq(NameOrder, LAMBDA n : (d \o <<n>>) \in Universe /\ fs[d \o <<n>>] # "none")

----------------------------------------------------------------------------
(* gitwildmatch patterns, as pathspec compiles them.  A pattern is its list *)
(* of segments: a literal name, "*.ext", "*" or "**"; it is anchored when   *)
(* it holds a slash other than a trailing one, and directory-only when it   *)
(* ends with a slash.                                                       *)

Lit(n) == [kind |-> "lit", v |-> n]

ExtGlob(e) == [kind |-> "ext", v |-> e]

Star == [kind |-> "star", v |-> ""]

DoubleStar == [kind |-> "dstar", v |-> ""]

Pattern(text, anchored, dirOnly, segs) ==
    [text |-> text, anchored |-> anchored, dirOnly |-> dirOnly, segs |-> segs]

\* Patterns given with --exclude or read from an ignore file.
ExcludeVocabulary ==
    { Pattern("*.log", FALSE, FALSE, <<ExtGlob("log")>>),
      Pattern("pkg/", FALSE, TRUE, <<Lit("pkg")>>),
      Pattern("sub", FALSE, FALSE, <<Lit("sub")>>),
      Pattern("/a.py", TRUE, FALSE, <<Lit("a.py")>>),
      Pattern("pkg/*", TRUE, FALSE, <<Lit("pkg"), Star>>) }

\* Patterns given with --glob.
IncludeVocabulary ==
    { Pattern("*.py", FALSE, FALSE, <<ExtGlob("py")>>),
      Pattern("pkg/**/*.py", TRUE, FALSE, <<Lit("pkg"), DoubleStar, ExtGlob("py")>>) }

PatternSets(vocabulary) == {P \in SUBSET vocabulary : Cardinality(P) <= MaxPatterns}

\* One path component against one pattern segment.
SegMatch(g, name) ==
    CASE g.kind = "lit" -> name = g.v
      [] g.kind = "ext" -> Ext(name) = g.v
      [] g.kind = "star" -> TRUE
      [] OTHER -> FALSE

\* The positions at which segments body, matched from component j + 1 on, may
\* end; "**" spans any number of whole components.
RECURSIVE BodyEnds(_, _, _)
BodyEnds(body, rel, j) ==
    IF body = <<>> THEN {j}
    ELSE IF Head(body).kind = "dstar"
         THEN UNION {BodyEnds(Tail(body), rel, m) : m \in j..Len(rel)}
         ELSE IF j < Len(rel) /\ SegMatch(Head(body), rel[j + 1])
              THEN BodyEnds(Tail(body), rel, j + 1)
              ELSE {}

\* Whether the pattern's regular expression matches the relative path rel,
\* written with a trailing slash when slash is set.  An unanchored pattern may
\* start at any component, and what follows a match is free, except that a
\* directory-only pattern needs a slash after it.
PatternMatches(pat, rel, slash) ==
    \E start \in (IF pat.anchored THEN {0} ELSE 0..Len(rel)) :
        \E end \in BodyEnds(pat.segs, rel, start) :
            pat.dirOnly => (end < Len(rel) \/ slash)

\* PathSpec.match_file
match_file(patterns, rel, slash) ==
    \E pat \in patterns : PatternMatches(pat, rel, slash)

\* IgnoreFilter._is_ignored
IsIgnored(p) ==
    IF RelpathRaises(p) THEN FALSE
    ELSE \/ match_file(excludePatterns, p, FALSE)
         \/ isdir(p) /\ match_file(excludePatterns, p, TRUE)

\* GlobFilter._matches_pattern
MatchesPattern(p) ==
    IF RelpathRaises(p) THEN FALSE ELSE match_file(includePatterns, p, FALSE)

\* GlobFilter.should_include without its directory test.
GlobShouldIncludeNoDirTest(p) ==
    IF includePatterns = {} THEN TRUE ELSE MatchesPattern(p)

\* GlobFilter.should_include
GlobShouldInclude(p) ==
    IF includePatterns = {} THEN TRUE
    ELSE IF isdir(p) THEN TRUE
    ELSE MatchesPattern(p)

\* IgnoreFilter.should_include
IgnoreShouldInclude(p) == ~IsIgnored(p)

\* filter_obj.should_include, by the filter's class
should_include(filter, p) ==
    IF filter = "GlobFilter" THEN GlobShouldInclude(p) ELSE IgnoreShouldInclude(p)

----------------------------------------------------------------------------
(* FileScanner *)

\* Bound: scan is called at most this many times on one scanner.
MaxScans == 2

\* The filter lists a scanner is built with; the command line builds the first.
FilterLists ==
    { <<"GlobFilter", "IgnoreFilter">>, <<"IgnoreFilter", "GlobFilter">>, <<>> }

\* FileScanner.__init__: the counters before any scan.
InitialStats ==
    [k \in {"scanned", "glob_filtered", "ignored", "non_text", "size_filtered", "included"}
        |-> 0]

\* The counters scan starts from.
ResetStats == [k \in {"scanned", "glob_filtered", "ignored", "included"} |-> 0]

\* _should_include_dir asking the first filter only.
ShouldIncludeDirFirstOnly(p) == filters = <<>> \/ should_include(filters[1], p)

\* FileScanner._should_include_dir
ShouldIncludeDir(p) == \A i \in 1..Len(filters) : should_include(filters[i], p)

\* _apply_filters naming the last filter that rejects the file.
ApplyFiltersLastWins(p) ==
    LET failing == {i \in 1..Len(filters) : ~should_include(filters[i], p)}
    IN  IF failing = {} THEN "included"
        ELSE LET last == CHOOSE i \in failing : \A j \in failing : i >= j
             IN  IF filters[last] = "GlobFilter" THEN "glob_filtered" ELSE "ignored"

\* FileScanner._apply_filters: the first filter that rejects the file names
\* the counter.
ApplyFilters(p) ==
    LET failing == {i \in 1..Len(filters) : ~should_include(filters[i], p)}
    IN  IF failing = {} THEN "included"
        ELSE LET first == CHOOSE i \in failing : \A j \in failing : i <= j
             IN  IF filters[first] = "GlobFilter" THEN "glob_filtered" ELSE "ignored"

\* The paths a filter list is asked about when given p.
Asked(p) == IF filters = <<>> THEN {} ELSE {p}

\* os.walk's dirs of directory d: the entries that are directories, links to
\* directories included.
WalkDirs(d) == SelectSeq(Listing(d), LAMBDA n : isdir(d \o <<n>>))

\* os.walk's files of directory d: every other entry.
WalkFiles(d) == SelectSeq(Listing(d), LAMBDA n : ~isdir(d \o <<n>>))

\* One turn of scan's inner loop, for the file named n in directory d.
VisitFile(acc, d, n) ==
    LET p == d \o <<n>>
        verdict == ApplyFilters(p)
    IN  IF islink(p) THEN acc
        ELSE LET counted == [acc EXCEPT !.stats.scanned = @ + 1,
                                        !.evaluated = @ \cup Asked(p)]
             IN  IF verdict # "included"
                 THEN IF verdict \in DOMAIN counted.stats
                      THEN [counted EXCEPT !.stats[verdict] = @ + 1]
                      ELSE counted
                 ELSE [counted EXCEPT !.files = Append(@, p),
                                      !.stats.included = @ + 1]

RECURSIVE VisitFiles(_, _, _)
VisitFiles(acc, d, names) ==
    IF names = <<>> THEN acc
    ELSE VisitFiles(VisitFile(acc, d, Head(names)), d, Tail(names))

\* A scan that does not count the directories it prunes.
RemovedCountNone(original_dirs, dirs) == 0

\* scan's removed_count: the directories a filter took out of dirs.
RemovedCount(original_dirs, dirs) == Len(original_dirs) - Len(dirs)

\* One turn of scan's outer loop at directory d, then os.walk's descent into
\* the directories left in dirs that are not links (followlinks=False).
RECURSIVE WalkFrom(_, _)
RECURSIVE DescendAll(_, _, _)
WalkFrom(acc, d) ==
    LET original_dirs == WalkDirs(d)
        dirs == SelectSeq(original_dirs, LAMBDA n : ShouldIncludeDir(d \o <<n>>))
        pruned == [acc EXCEPT
                      !.stats.ignored = @ + RemovedCount(original_dirs, dirs),
                      !.evaluated = @ \cup UNION {Asked(d \o <<n>>) : n \in Range(original_dirs)},
                      !.walked = Append(@, d)]
        visited == VisitFiles(pruned, d, WalkFiles(d))
    IN  DescendAll(visited, d, SelectSeq(dirs, LAMBDA n : ~islink(d \o <<n>>)))

DescendAll(acc, d, names) ==
    IF names = <<>> THEN acc
    ELSE DescendAll(WalkFrom(acc, d \o <<Head(names)>>), d, Tail(names))

\* FileScanner.scan on the root
ScanRun ==
    WalkFrom([files |-> <<>>, stats |-> ResetStats, evaluated |-> {}, walked |-> <<>>], <<>>)

\* What scanner.scan(target_dir) does to the scanner.
ScanCall ==
    /\ scanCalls < MaxScans
    /\ LET run == ScanRun
       IN  /\ scanResult' = run.files
           /\ stats' = run.stats
           /\ scanEvaluated' = run.evaluated
    /\ scanCalls' = scanCalls + 1
    /\ UNCHANGED <<fs, includePatterns, excludePatterns, filters, treeLines,
                   treeEvaluated, treeBuilt>>

\* A call of scanner.scan(target_dir)
Scan ==
    /\ ScanCall
    /\ UNCHANGED exceptScan

----------------------------------------------------------------------------
(* TreeBuilder *)

\* FileScanner._is_text_file: the probe fails on a binary file.
IsTextFile(p) == p \in Universe /\ fs[p] \in {"file", "linkfile"}

\* The names _walk_directory keeps as dirs in directory d.
TreeDirs(d) ==
    SelectSeq(Listing(d), LAMBDA n : IgnoreShouldInclude(d \o <<n>>) /\ isdir(d \o <<n>>))

\* A tree view that does not ask the include matcher.
TreeFilesNoGlob(d) ==
    SelectSeq(Listing(d),
              LAMBDA n : /\ IgnoreShouldInclude(d \o <<n>>)
                         /\ ~isdir(d \o <<n>>)
                         /\ isfile(d \o <<n>>)
                         /\ IsTextFile(d \o <<n>>))

\* The names _walk_directory keeps as files in directory d.
TreeFiles(d) ==
    SelectSeq(Listing(d),
              LAMBDA n : /\ IgnoreShouldInclude(d \o <<n>>)
                         /\ ~isdir(d \o <<n>>)
                         /\ isfile(d \o <<n>>)
                         /\ GlobShouldInclude(d \o <<n>>)
                         /\ IsTextFile(d \o <<n>>))

\* The line of entry n of directory d: the prefix, the connector, the name
\* and the slash that marks a directory.  The box-drawing characters are
\* written in ASCII: "|-- " the branch, "+-- " the last entry, "|   " the bar.
TreeLine(d, prefix, n, isLast, isDir) ==
    [path |-> d \o <<n>>,
     text |-> prefix \o <<IF isLast THEN "+-- " ELSE "|-- ", n>>
                     \o (IF isDir THEN <<"/">> ELSE <<>>)]

\* TreeBuilder._walk_directory: the lines of directory d and below.
RECURSIVE WalkDirectory(_, _)
RECURSIVE WalkEntries(_, _, _, _)
WalkDirectory(d, prefix) ==
    WalkEntries(d, prefix, TreeDirs(d) \o TreeFiles(d), Len(TreeDirs(d)))

\* The loop over all_entries, of which the first nDirs are directories.
WalkEntries(d, prefix, entries, nDirs) ==
    IF entries = <<>> THEN <<>>
    ELSE LET n == Head(entries)
             isLast == Len(entries) = 1
             isDir == nDirs > 0
             new_prefix == prefix \o <<IF isLast THEN "    " ELSE "|   ">>
         IN  <<TreeLine(d, prefix, n, isLast, isDir)>>
             \o (IF isDir THEN WalkDirectory(d \o <<n>>, new_prefix) ELSE <<>>)
             \o WalkEntries(d, prefix, Tail(entries), Max(nDirs - 1, 0))

\* The directories _walk_directory runs on.
RECURSIVE TreeWalked(_)
TreeWalked(d) ==
    {d} \cup UNION {TreeWalked(d \o <<n>>) : n \in Range(TreeDirs(d))}

\* TreeBuilder.build: the root's line, then the walk.
Build ==
    /\ ~treeBuilt
    /\ treeLines' = <<[path |-> <<>>, text |-> <<"root", "/">>]>> \o WalkDirectory(<<>>, <<>>)
    /\ treeEvaluated' = UNION {{d \o <<n>> : n \in Range(Listing(d))} : d \in TreeWalked(<<>>)}
    /\ treeBuilt' = TRUE
    /\ UNCHANGED exceptScan
    /\ UNCHANGED <<fs, includePatterns, excludePatterns, filters, stats, scanResult,
                   scanEvaluated, scanCalls>>

----------------------------------------------------------------------------
(* The scanner and the tree view on one directory tree *)

InitScan ==
    /\ fs \in Trees
    /\ includePatterns \in PatternSets(IncludeVocabulary)
    /\ excludePatterns \in PatternSets(ExcludeVocabulary)
    /\ filters \in FilterLists
    /\ stats = InitialStats
    /\ scanResult = <<>>
    /\ scanEvaluated = {}
    /\ scanCalls = 0
    /\ treeLines = <<>>
    /\ treeEvaluated = {}
    /\ treeBuilt = FALSE
    /\ SanIdle
    /\ WinIdle
    /\ CliIdle
    /\ MergeIdle
    /\ GenIdle
    /\ InfoIdle
    /\ ProbeIdle
    /\ RescanIdle
    /\ AutoIdle

\* The scanner and tree builder before they are given a directory.
ScanIdle ==
    /\ fs = [p \in Universe |-> "none"]
    /\ includePatterns = {}
    /\ excludePatterns = {}
    /\ filters = <<>>
    /\ stats = InitialStats
    /\ scanResult = <<>>
    /\ scanEvaluated = {}
    /\ scanCalls = 0
    /\ treeLines = <<>>
    /\ treeEvaluated = {}
    /\ treeBuilt = FALSE

NextScan == Scan \/ Build

SpecScan == InitScan /\ [][NextScan]_vars

----------------------------------------------------------------------------
(* What the claims about the scan and the tree speak of *)

ProperPrefixes(p) == {SubSeq(p, 1, k) : k \in 1..(Len(p) - 1)}

\* The path matches an exclude pattern.
MatchesExclude(p) == match_file(excludePatterns, p, FALSE)

\* The path matches an include pattern.
MatchesInclude(p) == match_file(includePatterns, p, FALSE)

\* A directory that an exclude pattern matches, as a path or as a directory.
ExcludedDir(d) ==
    /\ d \in Universe
    /\ fs[d] \in {"dir", "linkdir"}
    /\ match_file(excludePatterns, d, FALSE) \/ match_file(excludePatterns, d, TRUE)

BeneathExcludedDir(p) == \E d \in ProperPrefixes(p) : ExcludedDir(d)

BeneathLink(p) == \E d \in ProperPrefixes(p) : fs[d] = "linkdir"

HasExclude == "IgnoreFilter" \in Range(filters)

HasInclude == "GlobFilter" \in Range(filters)

\* The plain files of the directories a scan with the exclude matcher walks.
PlainVisited ==
    {p \in Universe : /\ fs[p] \in {"file", "binfile"}
                      /\ ~BeneathLink(p)
                      /\ HasExclude => ~BeneathExcludedDir(p)}

\* The directories such a scan prunes: excluded ones in a walked directory.
PrunedDirs ==
    {d \in Universe : /\ ExcludedDir(d)
                      /\ ~BeneathLink(d)
                      /\ ~BeneathExcludedDir(d)}

TreePaths == {treeLines[i].path : i \in 2..Len(treeLines)}

C2_NoSymlinks ==
    /\ scanCalls > 0 =>
          \A i \in 1..Len(scanResult) :
              ~islink(scanResult[i]) /\ ~BeneathLink(scanResult[i])
    /\ treeBuilt => \A p \in TreePaths : ~islink(p) /\ ~BeneathLink(p)

\* C2's case: a tree holding a link to a file and a link to a directory
\* with an entry behind it, scanned and rendered.
C2_LinkScanned ==
    /\ scanCalls > 0 /\ treeBuilt
    /\ \E p \in Universe : fs[p] = "linkfile"
    /\ \E p \in Universe : fs[p] # "none" /\ BeneathLink(p)
    /\ \A i \in 1..Len(scanResult) : ~islink(scanResult[i]) /\ ~BeneathLink(scanResult[i])

\* C3: with include patterns, every record matches one of them; the include
\* matcher accepts every directory and, without patterns, every path; so
\* where no directory is excluded every plain file is reached.
C3_IncludeMatches ==
    /\ (scanCalls > 0 /\ HasInclude /\ includePatterns # {}) =>
          \A i \in 1..Len(scanResult) : MatchesInclude(scanResult[i])
    /\ \A p \in Universe \cup {<<>>} :
          (p = <<>> \/ fs[p] \in {"dir", "linkdir"}) => GlobShouldInclude(p)
    /\ includePatterns = {} => \A p \in Universe : GlobShouldInclude(p)
    /\ (scanCalls > 0 /\ \A d \in Universe : ~ExcludedDir(d)) =>
          /\ stats.scanned =
                Cardinality({p \in Universe : fs[p] \in {"file", "binfile"} /\ ~BeneathLink(p)})
          /\ \A p \in Universe :
                (fs[p] \in {"dir", "linkdir"} /\ ~BeneathLink(p) /\ filters # <<>>)
                    => p \in scanEvaluated

\* C3's case: include patterns that match no directory name, a directory
\* holding a matching file, and a scan that returned it.
C3_Witness ==
    /\ scanCalls > 0 /\ HasInclude /\ includePatterns # {}
    /\ fs[<<"pkg">>] = "dir"
    /\ ~MatchesInclude(<<"pkg">>)
    /\ \E i \in 1..Len(scanResult) : Len(scanResult[i]) > 1
    /\ \E p \in Universe : fs[p] = "file" /\ ~MatchesInclude(p)

\* C4: with the filters in the command line's order every plain file visited
\* is counted in scanned and in exactly one of glob_filtered (it fails the
\* include matcher, excluded or not), ignored (it passes include and matches
\* exclude) and included (it passes both, and is in the result).
C4_CounterPerFile ==
    (scanCalls > 0 /\ filters = <<"GlobFilter", "IgnoreFilter">>) =>
        LET passes(p) == includePatterns = {} \/ MatchesInclude(p)
            globFiltered == {p \in PlainVisited : ~passes(p)}
            ignored == {p \in PlainVisited : passes(p) /\ MatchesExclude(p)}
            included == {p \in PlainVisited : passes(p) /\ ~MatchesExclude(p)}
        IN  /\ stats.scanned = Cardinality(PlainVisited)
            /\ stats.glob_filtered = Cardinality(globFiltered)
            /\ stats.ignored = Cardinality(ignored) + Cardinality(PrunedDirs)
            /\ stats.included = Cardinality(included)
            /\ Range(scanResult) = included
            /\ Len(scanResult) = Cardinality(included)
            /\ stats.scanned = stats.glob_filtered + Cardinality(ignored) + stats.included

\* C4's case: one scan that counts a file in each of the three ways, one of
\* them failing include while matching exclude.
C4_Witness ==
    /\ scanCalls > 0 /\ filters = <<"GlobFilter", "IgnoreFilter">>
    /\ stats.glob_filtered > 0 /\ stats.included > 0
    /\ \E p \in PlainVisited : MatchesInclude(p) /\ MatchesExclude(p)
    /\ \E p \in PlainVisited : ~MatchesInclude(p) /\ MatchesExclude(p)

----------------------------------------------------------------------------
(* Text: sequences of one-character strings, and Python's operations on     *)
(* them                                                                     *)

Digits == {"0", "1", "2", "3", "4", "5", "6", "7", "8", "9"}

UpperSeq == 
    <<"A", "B", "C", "D", "E", "F", "G", "H", "I", "J", "K", "L", "M", "N",
    "O", "P", "Q", "R", "S", "T", "U", "V", "W", "X", "Y", "Z">>

LowerSeq == 
    <<"a", "b", "c", "d", "e", "f", "g", "h", "i", "j", "k", "l", "m", "n",
    "o", "p", "q", "r", "s", "t", "u", "v", "w", "x", "y", "z">>

Upper == Range(UpperSeq)

Lower == Range(LowerSeq)

\* \w
WordChars == Digits \cup Upper \cup Lower \cup {"_"}

\* \s
Spaces == {" ", "\n", "\t", "\r"}

Quotes == {"\"", "'"}

\* str.lower on one character
ToLower(c) ==
    IF c \in Upper THEN LowerSeq[CHOOSE i \in 1..Len(UpperSeq) : UpperSeq[i] = c] ELSE c

\* s[i:].startswith(lit)
StartsAt(s, i, lit) ==
    /\ i >= 1
    /\ i + Len(lit) - 1 <= Len(s)
    /\ \A k \in 1..Len(lit) : s[i + k - 1] = lit[k]

\* The same, ignoring case (lit is written in lower case).
StartsAtNoCase(s, i, lit) ==
    /\ i >= 1
    /\ i + Len(lit) - 1 <= Len(s)
    /\ \A k \in 1..Len(lit) : ToLower(s[i + k - 1]) = lit[k]

\* str.startswith
StartsWith(s, lit) == StartsAt(s, 1, lit)

\* old in s
Contains(s, old) == \E i \in 1..(Len(s) - Len(old) + 1) : StartsAt(s, i, old)

\* The least member of a non-empty set of numbers
Least(S) == CHOOSE x \in S : \A y \in S : x <= y

\* s.find(old, i): the first position from i on where old occurs, or 0
Find(s, old, i) ==
    LET at == {j \in i..(Len(s) - Len(old) + 1) : StartsAt(s, j, old)}
    IN  IF at = {} THEN 0 ELSE Least(at)

\* s.count(old), for a non-empty old: the non-overlapping occurrences, left to right
RECURSIVE CountFrom(_, _, _)
CountFrom(s, old, i) ==
    LET j == Find(s, old, i)
    IN  IF j = 0 THEN 0 ELSE 1 + CountFrom(s, old, j + Len(old))

Count(s, old) == CountFrom(s, old, 1)

\* s.replace(old, new) from position i on, for a non-empty old
RECURSIVE ReplaceFrom(_, _, _, _)
ReplaceFrom(s, old, new, i) ==
    LET j == Find(s, old, i)
    IN  IF j = 0 THEN SubSeq(s, i, Len(s))
        ELSE SubSeq(s, i, j - 1) \o new \o ReplaceFrom(s, old, new, j + Len(old))

\* str.replace
Replace(s, old, new) == ReplaceFrom(s, old, new, 1)

\* str(n) for n >= 0
RECURSIVE DecStr(_)
DecStr(n) ==
    LET digit == <<"0", "1", "2", "3", "4", "5", "6", "7", "8", "9">>[(n % 10) + 1]
    IN  IF n < 10 THEN <<digit>> ELSE Append(DecStr(n \div 10), digit)

\* The last position of the longest run of characters of class that starts
\* at i (i - 1 when there is none).
RECURSIVE RunEnd(_, _, _)
RunEnd(s, i, class) ==
    IF i <= Len(s) /\ s[i] \in class THEN RunEnd(s, i + 1, class) ELSE i - 1

IsWordAt(s, i) == i >= 1 /\ i <= Len(s) /\ s[i] \in WordChars

\* \b between positions i - 1 and i
BoundaryBefore(s, i) == IsWordAt(s, i - 1) # IsWordAt(s, i)

\* The orders in which iterating set(values) may enumerate it.
Orders(S) ==
    {f \in [1..Cardinality(S) -> S] : \A i, j \in 1..Cardinality(S) : f[i] = f[j] => i = j}

----------------------------------------------------------------------------
(* Sanitizer *)

\* "[REDACTED_<category>_<n>]"
Placeholder(category, n) ==
    <<"[", "R", "E", "D", "A", "C", "T", "E", "D", "_">> \o category \o <<"_">> \o DecStr(n) \o <<"]">>

\* ip_pattern: \b(?:\d{1,3}\.){3}\d{1,3}\b
\* The position after one "\d{1,3}\." group that starts at i, or 0.
OctetDot(s, i) ==
    LET e == RunEnd(s, i, Digits)
    IN  IF i > 0 /\ e >= i /\ e - i + 1 <= 3 /\ e < Len(s) /\ s[e + 1] = "." THEN e + 2 ELSE 0

IPEnd(s, i) ==
    LET a == OctetDot(s, i)
        b == OctetDot(s, a)
        c == OctetDot(s, b)
        e == RunEnd(s, c, Digits)
    IN  IF /\ BoundaryBefore(s, i)
           /\ c > 0
           /\ e >= c /\ e - c + 1 <= 3
           /\ BoundaryBefore(s, e + 1)
        THEN e ELSE 0

\* The addresses the IP detector leaves alone.
IPExempt(ip) ==
    \/ StartsWith(ip, <<"1", "2", "7", ".">>)
    \/ StartsWith(ip, <<"0", ".">>)
    \/ StartsWith(ip, <<"1", "9", "2", ".", "1", "6", "8", ".">>)
    \/ StartsWith(ip, <<"1", "0", ".">>)

\* email_pattern: \b[A-Za-z0-9._%+-]+@[A-Za-z0-9.-]+\.[A-Z|a-z]{2,}\b
EmailLocal == Upper \cup Lower \cup Digits \cup {".", "_", "%", "+", "-"}

EmailDomain == Upper \cup Lower \cup Digits \cup {".", "-"}

EmailTld == Upper \cup Lower \cup {"|"}

\* The greedy local part runs to the "@"; the greedy domain gives back up to
\* a "." that at least two letters and a word boundary follow, the longest
\* domain first and then the longest run of letters.
EmailEnd(s, i) ==
    LET at == RunEnd(s, i, EmailLocal) + 1
        domEnd == RunEnd(s, at + 1, EmailDomain)
        tldEnds(d) == {f \in (d + 3)..RunEnd(s, d + 2, EmailTld) : BoundaryBefore(s, f + 1)}
        domEnds == {d \in (at + 1)..(domEnd - 1) : s[d + 1] = "." /\ tldEnds(d) # {}}
    IN  IF /\ BoundaryBefore(s, i)
           /\ at > i /\ at <= Len(s) /\ s[at] = "@"
           /\ domEnds # {}
        THEN LET d == CHOOSE x \in domEnds : \A y \in domEnds : y <= x
             IN  CHOOSE f \in tldEnds(d) : \A g \in tldEnds(d) : g <= f
        ELSE 0

\* aws_key_pattern: \b(AKIA[0-9A-Z]{16})\b
AwsKeyEnd(s, i) ==
    IF /\ BoundaryBefore(s, i)
       /\ StartsAt(s, i, <<"A", "K", "I", "A">>)
       /\ i + 19 <= Len(s)
       /\ \A k \in (i + 4)..(i + 19) : s[k] \in Digits \cup Upper
       /\ BoundaryBefore(s, i + 20)
    THEN i + 19 ELSE 0

\* What follows the key name in api_key_pattern and password_pattern:
\* [\s]*[=:]["']?(<class>{least,})["']?  The span of the value, or <<0, 0>>.
AssignedValue(s, k, class, least) ==
    LET eq == RunEnd(s, k, Spaces) + 1
        v == IF eq + 1 <= Len(s) /\ s[eq + 1] \in Quotes THEN eq + 2 ELSE eq + 1
        e == RunEnd(s, v, class)
    IN  IF eq <= Len(s) /\ s[eq] \in {"=", ":"} /\ e - v + 1 >= least
        THEN <<v, e>> ELSE <<0, 0>>

\* The position after the key name that starts at i, or 0, trying the
\* alternatives in the pattern's order.
RECURSIVE KeyNameEnd(_, _, _)
KeyNameEnd(s, i, names) ==
    IF names = <<>> THEN 0
    ELSE IF StartsAtNoCase(s, i, Head(names)) THEN i + Len(Head(names))
    ELSE KeyNameEnd(s, i, Tail(names))

\* A key = value match at i, as <<after the name, start of the value, end of
\* the value, end of the match>> (zeros when there is none).  An alternative
\* whose value fails gives way to the next one.
RECURSIVE AssignmentAt(_, _, _, _, _)
AssignmentAt(s, i, names, class, least) ==
    IF names = <<>> THEN <<0, 0, 0, 0>>
    ELSE LET k == KeyNameEnd(s, i, <<Head(names)>>)
             span == IF k > 0 THEN AssignedValue(s, k, class, least) ELSE <<0, 0>>
             close == IF span[2] < Len(s) /\ s[span[2] + 1] \in Quotes
                      THEN span[2] + 1 ELSE span[2]
         IN  IF span[1] > 0 THEN <<k, span[1], span[2], close>>
             ELSE AssignmentAt(s, i, Tail(names), class, least)

\* api_key_pattern's key names: api[_-]?key|apikey|api[_-]?secret
ApiKeyNames ==
    << <<"a", "p", "i", "_", "k", "e", "y">>,
       <<"a", "p", "i", "-", "k", "e", "y">>,
       <<"a", "p", "i", "k", "e", "y">>,
       <<"a", "p", "i", "_", "s", "e", "c", "r", "e", "t">>,
       <<"a", "p", "i", "-", "s", "e", "c", "r", "e", "t">>,
       <<"a", "p", "i", "s", "e", "c", "r", "e", "t">> >>

ApiKeyChars == Upper \cup Lower \cup Digits \cup {"_", "-"}

\* The least length of an API key's value: {20,}
ApiKeyMinLen == 20

ApiKeyEnd(s, i) == AssignmentAt(s, i, ApiKeyNames, ApiKeyChars, ApiKeyMinLen)[4]

\* findall's (key_type, key_value) for the match at i
ApiKeyGroup(s, i) ==
    LET m == AssignmentAt(s, i, ApiKeyNames, ApiKeyChars, ApiKeyMinLen)
    IN  <<SubSeq(s, i, m[1] - 1), SubSeq(s, m[2], m[3])>>

\* password_pattern's key names: password|passwd|pwd
PasswordNames ==
    << <<"p", "a", "s", "s", "w", "o", "r", "d">>,
       <<"p", "a", "s", "s", "w", "d">>,
       <<"p", "w", "d">> >>

\* [^\s"']: the characters of the model's texts that are neither
PasswordChars ==
    (WordChars \cup {".", "@", "-", "=", ":", "[", "]", "%", "+", "|"}) \ (Spaces \cup Quotes)

\* The least length of a password's value: {6,}
PasswordMinLen == 6

PasswordEnd(s, i) == AssignmentAt(s, i, PasswordNames, PasswordChars, PasswordMinLen)[4]

\* findall's (pwd_type, pwd_value) for the match at i
PasswordGroup(s, i) ==
    LET m == AssignmentAt(s, i, PasswordNames, PasswordChars, PasswordMinLen)
    IN  <<SubSeq(s, i, m[1] - 1), SubSeq(s, m[2], m[3])>>

BeginKey ==
    <<"-", "-", "-", "-", "-", "B", "E", "G", "I", "N", " ", "P", "R", "I",
    "V", "A", "T", "E", " ", "K", "E", "Y", "-", "-", "-", "-", "-">>

BeginRsaKey ==
    <<"-", "-", "-", "-", "-", "B", "E", "G", "I", "N", " ", "R", "S", "A",
    " ", "P", "R", "I", "V", "A", "T", "E", " ", "K", "E", "Y", "-", "-",
    "-", "-", "-">>

EndKey ==
    <<"-", "-", "-", "-", "-", "E", "N", "D", " ", "P", "R", "I", "V", "A",
    "T", "E", " ", "K", "E", "Y", "-", "-", "-", "-", "-">>

EndRsaKey ==
    <<"-", "-", "-", "-", "-", "E", "N", "D", " ", "R", "S", "A", " ", "P",
    "R", "I", "V", "A", "T", "E", " ", "K", "E", "Y", "-", "-", "-", "-",
    "-">>

RedactedPrivateKey ==
    <<"[", "R", "E", "D", "A", "C", "T", "E", "D", "_", "P", "R", "I", "V",
    "A", "T", "E", "_", "K", "E", "Y", "]">>

\* The length of the BEGIN (END) line at i, or 0.
BeginAt(s, i) ==
    IF StartsAt(s, i, BeginKey) THEN Len(BeginKey)
    ELSE IF StartsAt(s, i, BeginRsaKey) THEN Len(BeginRsaKey) ELSE 0

EndAt(s, i) ==
    IF StartsAt(s, i, EndKey) THEN Len(EndKey)
    ELSE IF StartsAt(s, i, EndRsaKey) THEN Len(EndRsaKey) ELSE 0

\* private_key_pattern at i: a BEGIN line, the shortest text (.*?, DOTALL)
\* and an END line.  The last position of the match, or 0.
PrivateKeyEnd(s, i) ==
    LET from == i + BeginAt(s, i)
        ends == {j \in from..Len(s) : EndAt(s, j) > 0}
    IN  IF BeginAt(s, i) > 0 /\ ends # {}
        THEN Least(ends) + EndAt(s, Least(ends)) - 1
        ELSE 0

\* The last position of the match of the named pattern that starts at i, or 0.
MatchEnd(pattern, s, i) ==
    CASE pattern = "ip" -> IPEnd(s, i)
      [] pattern = "email" -> EmailEnd(s, i)
      [] pattern = "aws_key" -> AwsKeyEnd(s, i)
      [] pattern = "api_key" -> ApiKeyEnd(s, i)
      [] pattern = "password" -> PasswordEnd(s, i)
      [] pattern = "private_key" -> PrivateKeyEnd(s, i)

\* What re.findall returns for the match from i to e: the two groups of the
\* patterns that have two, else the text matched.
MatchGroup(pattern, s, i, e) ==
    CASE pattern = "api_key" -> ApiKeyGroup(s, i)
      [] pattern = "password" -> PasswordGroup(s, i)
      [] OTHER -> SubSeq(s, i, e)

\* The matches of the pattern in s: for every position the last position of
\* the match that starts there, or 0.
MatchEnds(pattern, s) == [j \in 1..Len(s) |-> MatchEnd(pattern, s, j)]

\* The first position from i on where a match starts, or 0.
Search(ends, i) ==
    LET at == {j \in i..Len(ends) : ends[j] > 0}
    IN  IF at = {} THEN 0 ELSE Least(at)

\* re.findall(pattern, s): the matches from left to right, none overlapping
\* the one before.
RECURSIVE FindAllFrom(_, _, _, _)
FindAllFrom(s, pattern, ends, i) ==
    LET j == Search(ends, i)
    IN  IF j = 0 THEN <<>>
        ELSE <<MatchGroup(pattern, s, j, ends[j])>> \o FindAllFrom(s, pattern, ends, ends[j] + 1)

FindAll(s, pattern) == FindAllFrom(s, pattern, MatchEnds(pattern, s), 1)

\* re.sub(private_key_pattern, '[REDACTED_PRIVATE_KEY]', content), given the
\* pattern's matches in s, from position i on
RECURSIVE SubPrivateKeys(_, _, _)
SubPrivateKeys(s, ends, i) ==
    LET j == Search(ends, i)
    IN  IF j = 0 THEN SubSeq(s, i, Len(s))
        ELSE SubSeq(s, i, j - 1) \o RedactedPrivateKey \o SubPrivateKeys(s, ends, ends[j] + 1)

\* stats[label] = stats.get(label, 0) + n
Bump(st, label, n) ==
    IF label \in DOMAIN st THEN [st EXCEPT ![label] = @ + n]
    ELSE [k \in DOMAIN st \cup {label} |-> IF k = label THEN n ELSE st[k]]

\* One detector's loop "for i, v in enumerate(set(found), 1)", with the set
\* enumerated in the order of values: the i-th value is replaced by the
\* category's placeholder number i wherever it occurs and counted, unless
\* it is one of the spared, which keeps its number all the same.
RECURSIVE RedactFrom(_, _, _, _, _, _)
RedactFrom(acc, values, spared, category, label, i) ==
    IF i > Len(values) THEN acc
    ELSE LET next == IF values[i] \in spared THEN acc
                     ELSE [acc EXCEPT
                             !.text = Replace(@, values[i], Placeholder(category, i)),
                             !.stats = Bump(@, label, 1)]
         IN  RedactFrom(next, values, spared, category, label, i + 1)

RedactLoop(acc, values, spared, category, label) ==
    RedactFrom(acc, values, spared, category, label, 1)

\* The second group of each (key name, value) pair
Seconds(order) == [i \in 1..Len(order) |-> order[i][2]]

\* The detectors' findall calls
FindIPs(s) == FindAll(s, "ip")

FindEmails(s) == FindAll(s, "email")

FindAwsKeys(s) == FindAll(s, "aws_key")

FindApiKeys(s) == FindAll(s, "api_key")

FindPasswords(s) == FindAll(s, "password")

\* The IP detector
RedactIPs(acc, order) ==
    RedactLoop(acc, order, {ip \in Range(order) : IPExempt(ip)}, <<"I", "P">>, "IP addresses")

\* The email detector
RedactEmails(acc, order) ==
    RedactLoop(acc, order, {}, <<"E", "M", "A", "I", "L">>, "Email addresses")

\* The AWS access key detector
RedactAwsKeys(acc, order) ==
    RedactLoop(acc, order, {}, <<"A", "W", "S", "_", "K", "E", "Y">>, "AWS Keys")

\* The API key detector
RedactApiKeys(acc, order) ==
    RedactLoop(acc, Seconds(order), {}, <<"A", "P", "I", "_", "K", "E", "Y">>, "API Keys")

\* The password detector
RedactPasswords(acc, order) ==
    RedactLoop(acc, Seconds(order), {}, <<"P", "A", "S", "S", "W", "O", "R", "D">>, "Passwords")

\* The private key detector: every block is replaced, and the count goes up
\* by one when the text holds a BEGIN line.
RedactPrivateKeys(acc) ==
    IF Contains(acc.text, BeginKey) \/ Contains(acc.text, BeginRsaKey)
    THEN [acc EXCEPT !.text = SubPrivateKeys(@, MatchEnds("private_key", @), 1),
                     !.stats = Bump(@, "Private Keys", 1)]
    ELSE acc

\* Sanitizer._auto_sanitize: what it may return, one result for every order
\* in which the five sets are enumerated.  A result carries those orders.
Ordered(acc, order) == [acc EXCEPT !.orders = Append(@, order)]

AutoSanitize(acc) ==
    LET ips == {Ordered(RedactIPs(acc, o), o) : o \in Orders(Range(FindIPs(acc.text)))}
        emails == UNION {{Ordered(RedactEmails(a, o), o)
                            : o \in Orders(Range(FindEmails(a.text)))} : a \in ips}
        aws == UNION {{Ordered(RedactAwsKeys(a, o), o)
                         : o \in Orders(Range(FindAwsKeys(a.text)))} : a \in emails}
        api == UNION {{Ordered(RedactApiKeys(a, o), o)
                         : o \in Orders(Range(FindApiKeys(a.text)))} : a \in aws}
        pwds == UNION {{Ordered(RedactPasswords(a, o), o)
                          : o \in Orders(Range(FindPasswords(a.text)))} : a \in api}
    IN  {RedactPrivateKeys(a) : a \in pwds}

\* Sanitizer.sanitize with no custom replacements: the results it may return.
SanitizeResults(text, auto) ==
    LET start == [text |-> text, stats |-> <<>>, orders |-> <<>>]
    IN  IF auto THEN AutoSanitize(start) ELSE {start}

\* The patterns of the custom rules modelled: a word, a run of digits, and
\* one that is no regular expression
HelloPattern == <<"h", "e", "l", "l", "o">>

DigitsPattern == <<"\\", "d", "+">>

ParenPattern == <<"(">>

\* Whether re accepts the pattern
Compiles(pattern) == pattern \in {HelloPattern, DigitsPattern}

\* The number of groups of a pattern re accepts
GroupCount(pattern) == 0

\* The replacement that refers to group 1
BackrefTemplate == <<"\\", "1">>

\* Whether re.sub rejects the replacement template with re.error: a
\* reference to a group the pattern does not have
TemplateRaises(pattern, replacement) ==
    replacement = BackrefTemplate /\ GroupCount(pattern) < 1

\* f'Custom: {pattern}'
CustomLabel(pattern) ==
    CASE pattern = HelloPattern -> "Custom: hello"
      [] pattern = DigitsPattern -> "Custom: \\d+"
      [] pattern = ParenPattern -> "Custom: ("

\* The last position of the pattern's match that starts at i, or 0
CustomMatchEnd(pattern, s, i) ==
    IF pattern = DigitsPattern
    THEN (IF RunEnd(s, i, Digits) >= i THEN RunEnd(s, i, Digits) ELSE 0)
    ELSE (IF StartsAt(s, i, pattern) THEN i + Len(pattern) - 1 ELSE 0)

CustomMatchEnds(pattern, s) == [j \in 1..Len(s) |-> CustomMatchEnd(pattern, s, j)]

\* len(re.findall(pattern, s)), given the pattern's matches, from position i on
RECURSIVE CountMatches(_, _)
CountMatches(ends, i) ==
    LET j == Search(ends, i)
    IN  IF j = 0 THEN 0 ELSE 1 + CountMatches(ends, ends[j] + 1)

\* re.sub(pattern, replacement, s) for a replacement without references,
\* given the pattern's matches, from position i on
RECURSIVE CustomSub(_, _, _, _)
CustomSub(s, ends, replacement, i) ==
    LET j == Search(ends, i)
    IN  IF j = 0 THEN SubSeq(s, i, Len(s))
        ELSE SubSeq(s, i, j - 1) \o replacement \o CustomSub(s, ends, replacement, ends[j] + 1)

\* stats[label] = n
SetStat(st, label, n) ==
    [k \in DOMAIN st \cup {label} |-> IF k = label THEN n ELSE st[k]]

\* The except re.error branch: the pattern is taken as a plain string.
LiteralFallback(acc, rule) ==
    IF Contains(acc.text, rule.pattern)
    THEN [acc EXCEPT !.text = Replace(acc.text, rule.pattern, rule.replacement),
                     !.stats = SetStat(@, CustomLabel(rule.pattern),
                                       Count(acc.text, rule.pattern))]
    ELSE acc

\* One turn of _custom_sanitize's loop.  re.error is raised by findall for
\* a pattern re does not accept, and by sub for a replacement it rejects.
ApplyRule(acc, rule) ==
    IF Compiles(rule.pattern)
    THEN LET ends == CustomMatchEnds(rule.pattern, acc.text)
             n == CountMatches(ends, 1)
         IN  IF n = 0 THEN acc
             ELSE IF TemplateRaises(rule.pattern, rule.replacement)
                  THEN LiteralFallback(acc, rule)
                  ELSE [acc EXCEPT !.text = CustomSub(acc.text, ends, rule.replacement, 1),
                                   !.stats = SetStat(@, CustomLabel(rule.pattern), n)]
    ELSE LiteralFallback(acc, rule)

\* _custom_sanitize: the rules from the i-th on, in list order
RECURSIVE CustomSanitizeFrom(_, _, _)
CustomSanitizeFrom(acc, rules, i) ==
    IF i > Len(rules) THEN acc
    ELSE CustomSanitizeFrom(ApplyRule(acc, rules[i]), rules, i + 1)

\* sanitize: the automatic detectors when enabled, then the custom rules
SanitizeWith(text, auto, rules) ==
    {CustomSanitizeFrom(r, rules, 1) : r \in SanitizeResults(text, auto)}

\* A call of sanitize.
Sanitize ==
    /\ ~sanDone
    /\ \E r \in SanitizeWith(content, autoOn, customRules) :
         /\ sanText' = r.text
         /\ sanStats' = r.stats
         /\ sanOrders' = r.orders
    /\ sanDone' = TRUE
    /\ UNCHANGED <<content, autoOn, customRules>>
    /\ UNCHANGED exceptSan

\* The texts the sanitizer is given: up to MaxWords words of the vocabulary,
\* one space between two.
MaxWords == 2

Loopback ==
    <<"1", "2", "7", ".", "0", ".", "0", ".", "1">>

NearLoopback ==
    <<"2", "7", ".", "0", ".", "0", ".", "1">>

PublicIP ==
    <<"8", ".", "8", ".", "8", ".", "8">>

LongerIP ==
    <<"1", "8", ".", "8", ".", "8", ".", "8">>

Email ==
    <<"a", "@", "b", ".", "i", "o">>

PwdLine ==
    <<"p", "w", "d", "=", "s", "e", "c", "r", "e", "t", "1">>

PasswdLine ==
    <<"p", "a", "s", "s", "w", "d", "=", "s", "e", "c", "r", "e", "t", "1">>

AwsKey ==
    <<"A", "K", "I", "A", "A", "B", "C", "D", "E", "F", "G", "H", "I", "J",
    "K", "L", "M", "N", "O", "P">>

ApiKeyLine ==
    <<"a", "p", "i", "_", "k", "e", "y", "=", "a", "b", "c", "d", "e", "f",
    "g", "h", "i", "j", "0", "1", "2", "3", "4", "5", "6", "7", "8", "9">>

KeyBlock ==
    <<"-", "-", "-", "-", "-", "B", "E", "G", "I", "N", " ", "P", "R", "I",
    "V", "A", "T", "E", " ", "K", "E", "Y", "-", "-", "-", "-", "-", "\n",
    "M", "I", "I", "B", "\n", "-", "-", "-", "-", "-", "E", "N", "D", " ",
    "P", "R", "I", "V", "A", "T", "E", " ", "K", "E", "Y", "-", "-", "-",
    "-", "-">>

RsaKeyBlock ==
    <<"-", "-", "-", "-", "-", "B", "E", "G", "I", "N", " ", "R", "S", "A",
    " ", "P", "R", "I", "V", "A", "T", "E", " ", "K", "E", "Y", "-", "-",
    "-", "-", "-", "\n", "M", "I", "I", "E", "\n", "-", "-", "-", "-", "-",
    "E", "N", "D", " ", "R", "S", "A", " ", "P", "R", "I", "V", "A", "T",
    "E", " ", "K", "E", "Y", "-", "-", "-", "-", "-">>

OpenKeyBlock ==
    <<"-", "-", "-", "-", "-", "B", "E", "G", "I", "N", " ", "P", "R", "I",
    "V", "A", "T", "E", " ", "K", "E", "Y", "-", "-", "-", "-", "-", "\n",
    "M", "I", "I", "B">>

Hello ==
    <<"h", "e", "l", "l", "o">>

Vocabulary ==
    {Loopback, NearLoopback, PublicIP, LongerIP, Email, PwdLine, PasswdLine,
     AwsKey, ApiKeyLine, KeyBlock, RsaKeyBlock, OpenKeyBlock, Hello}

RECURSIVE Join(_)
Join(ws) ==
    IF ws = <<>> THEN <<>>
    ELSE IF Len(ws) = 1 THEN ws[1]
    ELSE ws[1] \o <<" ">> \o Join(Tail(ws))

Contents == {Join(ws) : ws \in UNION {[1..n -> Vocabulary] : n \in 0..MaxWords}}

InitSanitize ==
    /\ content \in Contents
    /\ autoOn \in BOOLEAN
    /\ customRules = <<>>
    /\ sanText = <<>>
    /\ sanStats = <<>>
    /\ sanOrders = <<>>
    /\ sanDone = FALSE
    /\ WinIdle
    /\ CliIdle
    /\ ScanIdle
    /\ MergeIdle
    /\ GenIdle
    /\ InfoIdle
    /\ ProbeIdle
    /\ RescanIdle
    /\ AutoIdle

NextSanitize == Sanitize

SpecSanitize == InitSanitize /\ [][NextSanitize]_vars

\* The longest list of custom rules
MaxRules == 2

\* The replacements of the rules: a plain text and a group reference
PlainTemplate == <<"X">>

CustomRuleSet ==
    [pattern : {HelloPattern, DigitsPattern, ParenPattern},
     replacement : {PlainTemplate, BackrefTemplate}]

RuleLists == UNION {[1..n -> CustomRuleSet] : n \in 0..MaxRules}

\* The words of the texts the custom rules are tried on
CustomWords == {Hello, <<"1", "2", "3">>, <<"f", "(", "x", ")">>, <<"4", "2">>, DigitsPattern}

CustomContents == {Join(ws) : ws \in UNION {[1..n -> CustomWords] : n \in 0..MaxWords}}

InitCustom ==
    /\ content \in CustomContents
    /\ autoOn = FALSE
    /\ customRules \in RuleLists
    /\ sanText = <<>>
    /\ sanStats = <<>>
    /\ sanOrders = <<>>
    /\ sanDone = FALSE
    /\ WinIdle
    /\ CliIdle
    /\ ScanIdle
    /\ MergeIdle
    /\ GenIdle
    /\ InfoIdle
    /\ ProbeIdle
    /\ RescanIdle
    /\ AutoIdle

NextCustom == Sanitize

SpecCustom == InitCustom /\ [][NextCustom]_vars

----------------------------------------------------------------------------
(* Sanitizer claims *)

\* How often v occurs in the sequence seq
Occurrences(seq, v) == Cardinality({i \in 1..Len(seq) : seq[i] = v})

\* stats.get(label, 0)
StatOf(st, label) == IF label \in DOMAIN st THEN st[label] ELSE 0

\* The numbers n for which the placeholder of the category occurs in the text
PlaceholderNumbers(text, category) ==
    {n \in 1..(MaxWords + 1) : Contains(text, Placeholder(category, n))}

\* The distinct values each detector has to redact in the text it is given
IPValues == {ip \in Range(FindIPs(content)) : ~IPExempt(ip)}

EmailValues == Range(FindEmails(content))

AwsKeyValues == Range(FindAwsKeys(content))

ApiKeyValues == {m[2] : m \in Range(FindApiKeys(content))}

PasswordValues == {m[2] : m \in Range(FindPasswords(content))}

\* The complete BEGIN ... END blocks of the text the sanitizer is given
KeyBlocks == FindAll(content, "private_key")

\* C5: with automatic sanitization on, every address of the input that
\* starts with 127., 0., 10. or 192.168. stands in the output as often as in
\* the input, whatever else the input holds, and no other address of the
\* input occurs in the output.
C5_ExemptIntact ==
    (sanDone /\ autoOn) =>
        \A ip \in Range(FindIPs(content)) :
            IF IPExempt(ip)
            THEN Occurrences(FindIPs(sanText), ip) = Occurrences(FindIPs(content), ip)
            ELSE ~Contains(sanText, ip)

\* A text with an exempt address and another address has been sanitized.
C5_ExemptAndOther ==
    /\ sanDone /\ autoOn
    /\ \E ip \in Range(FindIPs(content)) : IPExempt(ip)
    /\ \E ip \in Range(FindIPs(content)) : ~IPExempt(ip) /\ ~Contains(sanText, ip)

\* C6: in every category the output holds as many different placeholders as
\* the input holds distinct values to redact (one placeholder per value, no
\* placeholder shared by two values), no such value is left in the output,
\* and the category's count is the number of those values.
C6_PlaceholderPerValue ==
    (sanDone /\ autoOn) =>
        /\ \A v \in IPValues \cup EmailValues \cup AwsKeyValues
                      \cup ApiKeyValues \cup PasswordValues : ~Contains(sanText, v)
        /\ Cardinality(PlaceholderNumbers(sanText, <<"I", "P">>)) = Cardinality(IPValues)
        /\ StatOf(sanStats, "IP addresses") = Cardinality(IPValues)
        /\ Cardinality(PlaceholderNumbers(sanText, <<"E", "M", "A", "I", "L">>))
             = Cardinality(EmailValues)
        /\ StatOf(sanStats, "Email addresses") = Cardinality(EmailValues)
        /\ Cardinality(PlaceholderNumbers(sanText, <<"A", "W", "S", "_", "K", "E", "Y">>))
             = Cardinality(AwsKeyValues)
        /\ StatOf(sanStats, "AWS Keys") = Cardinality(AwsKeyValues)
        /\ Cardinality(PlaceholderNumbers(sanText, <<"A", "P", "I", "_", "K", "E", "Y">>))
             = Cardinality(ApiKeyValues)
        /\ StatOf(sanStats, "API Keys") = Cardinality(ApiKeyValues)
        /\ Cardinality(PlaceholderNumbers(sanText, <<"P", "A", "S", "S", "W", "O", "R", "D">>))
             = Cardinality(PasswordValues)
        /\ StatOf(sanStats, "Passwords") = Cardinality(PasswordValues)

\* A text in which one value occurs twice has been sanitized, one
\* placeholder standing for both occurrences.
C6_ValueTwice ==
    /\ sanDone /\ autoOn
    /\ \E v \in EmailValues : Occurrences(FindEmails(content), v) = 2
    /\ Count(sanText, Placeholder(<<"E", "M", "A", "I", "L">>, 1)) = 2
    /\ sanStats["Email addresses"] = 1

\* C7: the 'Private Keys' count is the number of complete BEGIN ... END
\* blocks of the input, each replaced by [REDACTED_PRIVATE_KEY]; without a
\* complete block the stats have no 'Private Keys' entry.
C7_CountPerBlock ==
    (sanDone /\ autoOn) =>
        /\ Count(sanText, RedactedPrivateKey) = Len(KeyBlocks)
        /\ IF Len(KeyBlocks) = 0 THEN "Private Keys" \notin DOMAIN sanStats
           ELSE StatOf(sanStats, "Private Keys") = Len(KeyBlocks)

\* A text with two complete blocks has been sanitized and both are replaced.
C7_TwoBlocks ==
    /\ sanDone /\ autoOn
    /\ Len(KeyBlocks) = 2
    /\ Count(sanText, RedactedPrivateKey) = 2

----------------------------------------------------------------------------
(* Content windowing in the generators *)

LineFeed == <<"\n">>

\* s.split('\n') from position i on
RECURSIVE SplitFrom(_, _)
SplitFrom(s, i) ==
    LET j == Find(s, LineFeed, i)
    IN  IF j = 0 THEN <<SubSeq(s, i, Len(s))>>
        ELSE <<SubSeq(s, i, j - 1)>> \o SplitFrom(s, j + 1)

\* s.split('\n')
SplitLines(s) == SplitFrom(s, 1)

\* '\n'.join(lines)
RECURSIVE JoinLines(_)
JoinLines(lines) ==
    IF lines = <<>> THEN <<>>
    ELSE IF Len(lines) = 1 THEN lines[1]
    ELSE lines[1] \o LineFeed \o JoinLines(Tail(lines))

\* lines[:n]
SliceTo(lines, n) ==
    IF n >= 0 THEN SubSeq(lines, 1, Min(n, Len(lines)))
    ELSE SubSeq(lines, 1, Len(lines) + n)

\* lines[-n:], where -0 is 0 and the slice starts at the first line
SliceLast(lines, n) ==
    IF n > 0 THEN SubSeq(lines, Max(1, Len(lines) - n + 1), Len(lines))
    ELSE SubSeq(lines, 1 - n, Len(lines))

\* "\n... (truncated)\n", appended in head mode
HeadMarker ==
    <<"\n", ".", ".", ".", " ", "(", "t", "r", "u", "n", "c", "a", "t", "e",
    "d", ")", "\n">>

\* "... (truncated)\n", prepended in tail mode
TailMarker ==
    <<".", ".", ".", " ", "(", "t", "r", "u", "n", "c", "a", "t", "e", "d",
    ")", "\n">>

\* The head branch with the marker appended whenever text is kept.
HeadWindowAlwaysMarked(text, n) ==
    LET kept == JoinLines(SliceTo(SplitLines(text), n))
    IN  IF kept # <<>> THEN kept \o HeadMarker ELSE kept

\* The head branch of the windowing
HeadWindow(text, n) ==
    LET lines == SliceTo(SplitLines(text), n)
        kept == JoinLines(lines)
    IN  IF Len(lines) = n /\ kept # <<>> THEN kept \o HeadMarker ELSE kept

\* The tail branch of the windowing
TailWindow(text, n) == TailMarker \o JoinLines(SliceLast(SplitLines(text), n))

\* The windowing of a file's text in generate: head first, else tail.
WindowText(text, head, tail) ==
    IF head # <<>> THEN HeadWindow(text, head[1])
    ELSE IF tail # <<>> THEN TailWindow(text, tail[1])
    ELSE text

\* The windowing step of generate for one file.
Window ==
    /\ ~windowDone
    /\ windowed' = WindowText(fileContent, headLines, tailLines)
    /\ windowDone' = TRUE
    /\ UNCHANGED <<fileContent, headLines, tailLines>>
    /\ UNCHANGED exceptWin

\* The longest text enumerated, and the largest limit
MaxLen == 4

MaxLimit == 3

\* The scenario's five-line file
FiveLines ==
    <<"l", "i", "n", "e", "1", "\n", "l", "i", "n", "e", "2", "\n", "l", "i",
    "n", "e", "3", "\n", "l", "i", "n", "e", "4", "\n", "l", "i", "n", "e",
    "5">>

Texts == UNION {[1..n -> {"a", "\n"}] : n \in 0..MaxLen} \cup {FiveLines}

\* --head / --tail are type=int: any integer, or None
Limits == {<<>>} \cup {<<n>> : n \in (-1)..MaxLimit}

InitWindow ==
    /\ fileContent \in Texts
    /\ headLines \in Limits
    /\ tailLines \in Limits
    /\ windowed = <<>>
    /\ windowDone = FALSE
    /\ ScanIdle
    /\ SanIdle
    /\ CliIdle
    /\ MergeIdle
    /\ GenIdle
    /\ InfoIdle
    /\ ProbeIdle
    /\ RescanIdle
    /\ AutoIdle

NextWindow == Window

SpecWindow == InitWindow /\ [][NextWindow]_vars

----------------------------------------------------------------------------
(* Windowing claims *)

\* The positions of the line feeds of a text
LineFeeds(s) == {i \in 1..Len(s) : s[i] = "\n"}

\* The position of the k-th line feed of s (1 <= k <= number of line feeds)
LineFeedAt(s, k) ==
    CHOOSE i \in LineFeeds(s) : Cardinality({j \in LineFeeds(s) : j <= i}) = k

\* The number of lines of a text
TotalLines(s) == Cardinality(LineFeeds(s)) + 1

\* The first k lines of s, line feeds between them (k >= 0)
FirstLines(s, k) ==
    IF k = 0 THEN <<>>
    ELSE IF k >= TotalLines(s) THEN s
    ELSE SubSeq(s, 1, LineFeedAt(s, k) - 1)

\* The last k lines of s, line feeds between them (k >= 0)
LastLines(s, k) ==
    IF k = 0 THEN <<>>
    ELSE IF k >= TotalLines(s) THEN s
    ELSE SubSeq(s, LineFeedAt(s, TotalLines(s) - k) + 1, Len(s))

\* C8: with a head limit N (a number of lines) the windowed text is the
\* first N lines of the file, followed by "\n... (truncated)\n" exactly when
\* the file has at least N lines, so that N were kept, and the kept text is
\* not empty.
C8_HeadWindow ==
    (windowDone /\ headLines # <<>> /\ headLines[1] >= 0) =>
        LET n == headLines[1]
            kept == FirstLines(fileContent, n)
        IN  windowed = IF TotalLines(fileContent) >= n /\ kept # <<>>
                       THEN kept \o HeadMarker ELSE kept

\* The scenario: five lines with head = 2 give "line1\nline2\n... (truncated)\n".
C8_Witness ==
    /\ windowDone
    /\ fileContent = FiveLines
    /\ headLines = <<2>>
    /\ windowed =
        <<"l", "i", "n", "e", "1", "\n", "l", "i", "n", "e", "2", "\n", ".",
        ".", ".", " ", "(", "t", "r", "u", "n", "c", "a", "t", "e", "d", ")",
        "\n">>

\* C9: with a tail limit N >= 0 (and no head limit) the windowed text is the
\* line "... (truncated)" followed by exactly the last min(N, total) lines of
\* the file, also when the file has fewer than N lines.
C9_TailWindow ==
    (windowDone /\ headLines = <<>> /\ tailLines # <<>> /\ tailLines[1] >= 0) =>
        windowed = TailMarker \o LastLines(fileContent, Min(tailLines[1], TotalLines(fileContent)))

\* A tail limit larger than the file: the marker and the whole file.
C9_Witness ==
    /\ windowDone
    /\ headLines = <<>>
    /\ tailLines # <<>>
    /\ tailLines[1] > TotalLines(fileContent)
    /\ fileContent # <<>>
    /\ windowed = TailMarker \o fileContent

----------------------------------------------------------------------------
(* The command line: main up to the scan *)

\* bool(v) of an optional integer
Truthy(v) == v # <<>> /\ v[1] # 0

\* bool(s) of an optional string
Given(s) == s # "None" /\ s # ""

\* s.strip(), for the blanks of the texts modelled
RECURSIVE Strip(_)
Strip(s) ==
    IF s # <<>> /\ s[1] = " " THEN Strip(Tail(s))
    ELSE IF s # <<>> /\ s[Len(s)] = " " THEN Strip(SubSeq(s, 1, Len(s) - 1))
    ELSE s

\* [pattern.strip() for pattern in s.split(',')], from position i on
RECURSIVE SplitCommasFrom(_, _)
SplitCommasFrom(s, i) ==
    LET j == Find(s, <<",">>, i)
    IN  IF j = 0 THEN <<Strip(SubSeq(s, i, Len(s)))>>
        ELSE <<Strip(SubSeq(s, i, j - 1))>> \o SplitCommasFrom(s, j + 1)

\* What merge_with_args makes of the configuration file's glob or exclude
\* key: a string is split at its commas, a list of strings is taken as it
\* is, a list holding anything else is refused with a warning.
ConfigPatterns(entry) ==
    CASE entry.kind = "str" -> <<SplitCommasFrom(entry.text, 1)>>
      [] entry.kind = "list" -> <<entry.items>>
      [] OTHER -> <<>>

\* parser.parse_args: an option that is not given has its default, None
\* for all but the format.
DefaultFormat == "text"

parse_args(given) == [given EXCEPT !.format = IF @ = "None" THEN DefaultFormat ELSE @]

\* ConfigLoader.merge_with_args: an option the command line left at None
\* (the format: at 'text') takes the configuration file's value, a flag
\* that is not set takes the configuration file's.
merge_with_args(cfg, a) ==
    [a EXCEPT !.target_dir = IF @ = "None" /\ cfg.input # "None" THEN cfg.input ELSE @,
              !.output_file = IF @ = "None" /\ cfg.output # "None" THEN cfg.output ELSE @,
              !.format = IF @ = "text" /\ cfg.format # "None" THEN cfg.format ELSE @,
              !.head = IF @ = <<>> /\ cfg.head # <<>> THEN cfg.head ELSE @,
              !.tail = IF @ = <<>> /\ cfg.tail # <<>> THEN cfg.tail ELSE @,
              !.stdout = @ \/ cfg.stdout,
              !.views = @ \/ cfg.views,
              !.ignore_file = IF @ = "None" /\ cfg.ignore_file # "None"
                              THEN cfg.ignore_file ELSE @,
              !.replace_file = IF @ = "None" /\ cfg.replace_file # "None"
                               THEN cfg.replace_file ELSE @,
              !.glob = IF @ = <<>> THEN ConfigPatterns(cfg.glob) ELSE @,
              !.exclude = IF @ = <<>> THEN ConfigPatterns(cfg.exclude) ELSE @]

\* main's checks, in order: the first one that calls parser.error, or "ok".
\* A target_dir names what the path is: "dir", "file" or "missing".
ValidationError(a) ==
    LET display_only_mode == a.views /\ ~Given(a.output_file) /\ ~a.stdout
    IN  IF ~Given(a.target_dir) THEN "input required"
        ELSE IF ~a.stdout /\ ~display_only_mode /\ ~Given(a.output_file) THEN "output required"
        ELSE IF a.output_file = "" THEN "output empty"
        ELSE IF Truthy(a.head) /\ Truthy(a.tail) THEN "head and tail"
        ELSE IF a.target_dir = "missing" THEN "input does not exist"
        ELSE IF a.target_dir # "dir" THEN "input not a directory"
        ELSE "ok"

\* The exit status of parser.error
ParserErrorStatus == 2

\* main: the configuration file's values are merged into the options.
MergeConfig ==
    /\ pc = "parsed"
    /\ args' = merge_with_args(config, args)
    /\ pc' = "merged"
    /\ UNCHANGED <<argv, config, exitStatus, scanStarted>>
    /\ UNCHANGED exceptCli

\* main: the checks; a failed one ends the run through parser.error.
Validate ==
    /\ pc = "merged"
    /\ IF ValidationError(args) = "ok"
       THEN pc' = "validated" /\ exitStatus' = exitStatus
       ELSE pc' = "exited" /\ exitStatus' = <<ParserErrorStatus>>
    /\ UNCHANGED <<argv, args, config, scanStarted>>
    /\ UNCHANGED exceptCli

\* The exit status of sys.exit(1), and of an uncaught exception
FailureStatus == 1

\* Whether pathspec refuses the gitwildmatch pattern (it raises): a lone
\* "!" and a pattern that ends in an escape character.
Malformed(pattern) ==
    \/ pattern = <<"!">>
    \/ pattern # <<>> /\ pattern[Len(pattern)] = "\\"

\* Whether PathSpec.from_lines raises for an optional list of patterns
FromLinesRaises(patterns) ==
    patterns # <<>> /\ \E i \in 1..Len(patterns[1]) : Malformed(patterns[1][i])

\* main: the format is normalised and the filters are built, GlobFilter from
\* args.glob, then IgnoreFilter from args.exclude.  GlobFilter turns what
\* from_lines raises into ValueError, IgnoreFilter lets it pass; main
\* catches neither.
BuildFilters ==
    /\ pc = "validated"
    /\ args' = [args EXCEPT !.format = IF @ = "md" THEN "markdown" ELSE @]
    /\ IF FromLinesRaises(args.glob) \/ FromLinesRaises(args.exclude)
       THEN pc' = "crashed" /\ exitStatus' = <<FailureStatus>>
       ELSE pc' = "ready" /\ exitStatus' = exitStatus
    /\ UNCHANGED <<argv, config, scanStarted>>
    /\ UNCHANGED exceptCli

\* main calls Merger.merge, which calls the scanner.
MergeScan ==
    /\ pc = "ready"
    /\ scanStarted' = TRUE
    /\ pc' = "scanning"
    /\ UNCHANGED <<argv, args, config, exitStatus>>
    /\ UNCHANGED exceptCli

\* The largest head / tail value enumerated
MaxArg == 1

ArgLimits == {<<>>} \cup {<<n>> : n \in (-1)..MaxArg}

\* Lists of exclude patterns: well-formed ones, and one with a malformed entry
LogPattern == <<"*", ".", "l", "o", "g">>

TmpPattern == <<"t", "m", "p", "/">>

PyPattern == <<"*", ".", "p", "y">>

BangPattern == <<"!">>

GoodPatterns == <<LogPattern, TmpPattern>>

BadPatterns == <<LogPattern, BangPattern, TmpPattern>>

\* A glob or exclude key that the configuration file does not have
AbsentKey == [kind |-> "absent", text |-> <<>>, items |-> <<>>]

InitCli ==
    /\ argv \in [target_dir : {"None", "dir", "file", "missing"},
                 output_file : {"None", "", "out.txt"},
                 format : {"None"},
                 head : ArgLimits, tail : ArgLimits,
                 stdout : BOOLEAN, views : BOOLEAN,
                 ignore_file : {"None"}, replace_file : {"None"},
                 glob : {<<>>},
                 exclude : {<<>>, <<GoodPatterns>>, <<BadPatterns>>}]
    /\ args = parse_args(argv)
    /\ config \in [input : {"None", "dir"}, output : {"None", "out.txt"},
                   format : {"None"},
                   head : ArgLimits, tail : ArgLimits,
                   stdout : {FALSE}, views : {FALSE},
                   ignore_file : {"None"}, replace_file : {"None"},
                   glob : {AbsentKey}, exclude : {AbsentKey}]
    /\ pc = "parsed"
    /\ exitStatus = <<>>
    /\ scanStarted = FALSE
    /\ ScanIdle
    /\ SanIdle
    /\ WinIdle
    /\ MergeIdle
    /\ GenIdle
    /\ InfoIdle
    /\ ProbeIdle
    /\ RescanIdle
    /\ AutoIdle

NextCli == MergeConfig \/ Validate \/ BuildFilters \/ MergeScan

SpecCli == InitCli /\ [][NextCli]_vars

\* The most options given on the command line, and the most keys of the
\* configuration file
MaxOptions == 2

\* The options merge_with_args looks at, by the name of their args attribute
Options ==
    {"target_dir", "output_file", "format", "head", "tail", "stdout", "views",
     "ignore_file", "replace_file", "glob", "exclude"}

\* Whether the command line gives the option
OnCommandLine(given, option) ==
    CASE option \in {"head", "tail", "glob", "exclude"} -> given[option] # <<>>
      [] option \in {"stdout", "views"} -> given[option]
      [] OTHER -> given[option] # "None"

\* The configuration file's key for an option
ConfigKey(option) ==
    CASE option = "target_dir" -> "input"
      [] option = "output_file" -> "output"
      [] OTHER -> option

\* Whether the configuration file has a (true) value for the option
InConfig(cfg, option) ==
    CASE option \in {"head", "tail"} -> cfg[option] # <<>>
      [] option \in {"stdout", "views"} -> cfg[option]
      [] option \in {"glob", "exclude"} -> cfg[option].kind # "absent"
      [] OTHER -> cfg[ConfigKey(option)] # "None"

\* The glob and exclude keys a configuration file may have
ConfigKeys ==
    {AbsentKey,
     [kind |-> "str", text |-> <<"*", ".", "p", "y", ",", " ", "*", ".", "m", "d">>, items |-> <<>>],
     [kind |-> "list", text |-> <<>>, items |-> <<PyPattern>>],
     [kind |-> "bad list", text |-> <<>>, items |-> <<>>]}

\* Command lines and configuration files with up to MaxOptions entries that
\* main's checks let pass
InitConfig ==
    /\ argv \in {a \in [target_dir : {"None", "dir"},
                        output_file : {"None", "out.txt"},
                        format : {"None", "text", "md"},
                        head : {<<>>, <<0>>}, tail : {<<>>, <<5>>},
                        stdout : BOOLEAN, views : BOOLEAN,
                        ignore_file : {"None", "my.ignore"},
                        replace_file : {"None", "my.replace"},
                        glob : {<<>>, <<<<LogPattern>>>>},
                        exclude : {<<>>, <<GoodPatterns>>}] :
                    Cardinality({o \in Options : OnCommandLine(a, o)}) <= MaxOptions}
    /\ args = parse_args(argv)
    /\ config \in {c \in [input : {"None", "dir"}, output : {"None", "cfg.txt"},
                          format : {"None", "text", "md"},
                          head : {<<>>, <<3>>}, tail : {<<>>, <<0>>},
                          stdout : BOOLEAN, views : BOOLEAN,
                          ignore_file : {"None", "cfg.ignore"},
                          replace_file : {"None", "cfg.replace"},
                          glob : ConfigKeys, exclude : ConfigKeys] :
                     Cardinality({o \in Options : InConfig(c, o)}) <= MaxOptions}
    /\ pc = "parsed"
    /\ exitStatus = <<>>
    /\ scanStarted = FALSE
    /\ ScanIdle
    /\ SanIdle
    /\ WinIdle
    /\ MergeIdle
    /\ GenIdle
    /\ InfoIdle
    /\ ProbeIdle
    /\ RescanIdle
    /\ AutoIdle

SpecConfig == InitConfig /\ [][NextCli]_vars

----------------------------------------------------------------------------
(* Command line claims *)

\* A head (tail) limit was supplied, on the command line or in the
\* configuration file.
HeadSupplied == args.head # <<>> \/ config.head # <<>>

TailSupplied == args.tail # <<>> \/ config.tail # <<>>

\* C10: when both a head and a tail limit are supplied, whatever their
\* values, the run gets past neither the checks nor to the scan: once the
\* checks have run it has exited with a non-zero status.
C10_HeadTailExclusive ==
    (HeadSupplied /\ TailSupplied) =>
        /\ ~scanStarted
        /\ pc \notin {"validated", "scanning"}
        /\ pc = "exited" => (exitStatus # <<>> /\ exitStatus[1] # 0)

\* Both limits supplied and non-zero: the run ended in the head / tail check.
C10_Witness ==
    /\ HeadSupplied /\ TailSupplied
    /\ pc = "exited"
    /\ ValidationError(args) = "head and tail"
    /\ exitStatus = <<ParserErrorStatus>>

----------------------------------------------------------------------------
(* Merger.merge *)

\* str.lower
LowerText(s) == [i \in 1..Len(s) |-> ToLower(s[i])]

\* display_only, with the views narrowed to the tree
DisplayOnlyTreeOnly(a) == a.show_tree /\ ~Given(a.output_file) /\ ~a.to_stdout

\* display_only: a view is requested, there is no output file and no stdout mode
DisplayOnly(a) ==
    (a.show_tree \/ a.show_list \/ a.show_stats) /\ ~Given(a.output_file) /\ ~a.to_stdout

\* The condition under which merge asks for confirmation
NeedsConfirm(a) == ~a.skip_confirm /\ ~a.to_stdout /\ Given(a.output_file)

\* The answers that confirm, compared as typed
AffirmativeAsTyped(answer) == answer \in {<<"y">>, <<"y", "e", "s">>}

\* response.lower() in ['y', 'yes']
Affirmative(answer) == LowerText(answer) \in {<<"y">>, <<"y", "e", "s">>}

\* What opening and writing the output file may do: succeed, or raise at
\* open or at write.  open(None) raises TypeError, open('') an OSError.
WriteOutcomes(output_file) ==
    IF output_file = "None" THEN {"TypeError at open"}
    ELSE IF output_file = "" THEN {"OSError at open"}
    ELSE {"ok", "PermissionError at open", "OSError at open", "OSError at write"}

\* The output file written with open / write / close in a row, no with
\* statement: a write that raises leaves the file object open.
DestAfterNoWith(outcome) ==
    CASE outcome = "ok" -> [state |-> "written", handle |-> "closed"]
      [] outcome = "OSError at write" -> [state |-> "truncated", handle |-> "open"]
      [] OTHER -> [state |-> "kept", handle |-> "none"]

\* with open(output_file, 'w') as f: f.write(content).  An open that raises
\* leaves the file as it was and gives no file object; an open that succeeds
\* truncates the file, and the with statement closes it whether write
\* returns or raises.
DestAfter(outcome) ==
    CASE outcome = "ok" -> [state |-> "written", handle |-> "closed"]
      [] outcome = "OSError at write" -> [state |-> "truncated", handle |-> "closed"]
      [] OTHER -> [state |-> "kept", handle |-> "none"]

\* The end of _write_output where only PermissionError is handled
AfterWritePermissionOnly(outcome) ==
    CASE outcome = "ok" ->
           [events |-> <<"open", "write", "report done">>, pc |-> "done", exit |-> <<>>]
      [] outcome = "PermissionError at open" ->
           [events |-> <<"open", "report error">>, pc |-> "exited", exit |-> <<FailureStatus>>]
      [] outcome = "OSError at open" ->
           [events |-> <<"open">>, pc |-> "done", exit |-> <<>>]
      [] outcome = "OSError at write" ->
           [events |-> <<"open", "write">>, pc |-> "done", exit |-> <<>>]
      [] outcome = "TypeError at open" ->
           [events |-> <<"open">>, pc |-> "crashed", exit |-> <<FailureStatus>>]

\* The end of _write_output in file mode: what is done, where merge ends
\* and the exit status, for each outcome of open and write.
AfterWrite(outcome) ==
    CASE outcome = "ok" ->
           [events |-> <<"open", "write", "report done">>, pc |-> "done", exit |-> <<>>]
      [] outcome \in {"PermissionError at open", "OSError at open"} ->
           [events |-> <<"open", "report error">>, pc |-> "exited", exit |-> <<FailureStatus>>]
      [] outcome = "OSError at write" ->
           [events |-> <<"open", "write", "report error">>, pc |-> "exited",
            exit |-> <<FailureStatus>>]
      [] outcome = "TypeError at open" ->
           [events |-> <<"open">>, pc |-> "crashed", exit |-> <<FailureStatus>>]

\* merge: the scan and the report of its counters
MergeScanFiles ==
    /\ mergePc = "start"
    /\ mergeLog' = Append(mergeLog, "scan")
    /\ mergePc' = "scanned"
    /\ UNCHANGED <<mergeArgs, mergeAnswer, mergeExit>>
    /\ destSeen' = Append(destSeen, destState)
    /\ UNCHANGED <<destState, destHandle>>
    /\ UNCHANGED exceptMerge

\* merge: the tree and the list are built when requested
MergeBuildViews ==
    /\ mergePc = "scanned"
    /\ mergeLog' = mergeLog
                     \o (IF mergeArgs.show_tree THEN <<"build tree">> ELSE <<>>)
                     \o (IF mergeArgs.show_list THEN <<"build list">> ELSE <<>>)
    /\ mergePc' = "built"
    /\ UNCHANGED <<mergeArgs, mergeAnswer, mergeExit>>
    /\ UNCHANGED destVars
    /\ UNCHANGED exceptMerge

\* merge in display-only mode: the views are printed and merge returns.  The
\* list of no files is the empty string and is not printed.
MergeDisplay ==
    /\ mergePc = "built"
    /\ DisplayOnly(mergeArgs)
    /\ mergeLog' = mergeLog
                     \o (IF mergeArgs.show_tree THEN <<"show tree">> ELSE <<>>)
                     \o (IF mergeArgs.show_list /\ mergeArgs.found THEN <<"show list">> ELSE <<>>)
                     \o (IF mergeArgs.show_stats THEN <<"show stats">> ELSE <<>>)
    /\ mergePc' = "done"
    /\ UNCHANGED <<mergeArgs, mergeAnswer, mergeExit>>
    /\ UNCHANGED destVars
    /\ UNCHANGED exceptMerge

\* The answers typed at the prompt
Answers ==
    {<<"y">>,
     <<"y", "e", "s">>,
     <<"Y">>,
     <<"Y", "e", "s">>,
     <<"Y", "E", "S">>,
     <<"n">>,
     <<"n", "o">>,
     <<>>,
     <<" ", "y">>,
     <<"y", "e", "s", " ", "p", "l", "e", "a", "s", "e">>}

\* merge: the confirmation prompt; any answer but y / yes cancels.
MergeConfirm ==
    /\ mergePc = "built"
    /\ ~DisplayOnly(mergeArgs)
    /\ NeedsConfirm(mergeArgs)
    /\ \E answer \in Answers :
         /\ mergeAnswer' = answer
         /\ IF Affirmative(answer)
            THEN mergeLog' = Append(mergeLog, "prompt") /\ mergePc' = "confirmed"
            ELSE mergeLog' = mergeLog \o <<"prompt", "cancelled">> /\ mergePc' = "done"
    /\ UNCHANGED <<mergeArgs, mergeExit>>
    /\ UNCHANGED destVars
    /\ UNCHANGED exceptMerge

\* merge: no confirmation is asked for.
MergeSkipConfirm ==
    /\ mergePc = "built"
    /\ ~DisplayOnly(mergeArgs)
    /\ ~NeedsConfirm(mergeArgs)
    /\ mergePc' = "confirmed"
    /\ UNCHANGED <<mergeArgs, mergeLog, mergeAnswer, mergeExit>>
    /\ UNCHANGED destVars
    /\ UNCHANGED exceptMerge

\* _write_output: the generator is called.
MergeGenerate ==
    /\ mergePc = "confirmed"
    /\ mergeLog' = Append(mergeLog, "generate")
    /\ mergePc' = "generated"
    /\ UNCHANGED <<mergeArgs, mergeAnswer, mergeExit>>
    /\ destSeen' = Append(destSeen, destState)
    /\ UNCHANGED <<destState, destHandle>>
    /\ UNCHANGED exceptMerge

\* _write_output: the content is printed, or written to the output file.
MergeWrite ==
    /\ mergePc = "generated"
    /\ IF mergeArgs.to_stdout
       THEN /\ mergeLog' = mergeLog \o <<"print content", "report done">>
            /\ mergePc' = "done"
            /\ mergeExit' = mergeExit
            /\ UNCHANGED <<destState, destHandle>>
       ELSE \E outcome \in WriteOutcomes(mergeArgs.output_file) :
              /\ mergeLog' = mergeLog \o <<outcome>> \o AfterWrite(outcome).events
              /\ mergePc' = AfterWrite(outcome).pc
              /\ mergeExit' = AfterWrite(outcome).exit
              /\ destState' = IF DestAfter(outcome).state = "kept" THEN destState
                              ELSE DestAfter(outcome).state
              /\ destHandle' = DestAfter(outcome).handle
    /\ UNCHANGED <<mergeArgs, mergeAnswer, destSeen>>
    /\ UNCHANGED exceptMerge

InitMerge ==
    /\ mergeArgs \in [output_file : {"None", "", "out.txt"}, to_stdout : BOOLEAN,
                      show_tree : BOOLEAN, show_list : BOOLEAN, show_stats : BOOLEAN,
                      skip_confirm : BOOLEAN, found : BOOLEAN]
    /\ mergePc = "start"
    /\ mergeLog = <<>>
    /\ mergeAnswer = <<>>
    /\ mergeExit = <<>>
    /\ destState = "previous"
    /\ destSeen = <<>>
    /\ destHandle = "none"
    /\ ScanIdle
    /\ SanIdle
    /\ WinIdle
    /\ CliIdle
    /\ GenIdle
    /\ InfoIdle
    /\ ProbeIdle
    /\ RescanIdle
    /\ AutoIdle

NextMerge ==
    \/ MergeScanFiles
    \/ MergeBuildViews
    \/ MergeDisplay
    \/ MergeConfirm
    \/ MergeSkipConfirm
    \/ MergeGenerate
    \/ MergeWrite

SpecMerge == InitMerge /\ [][NextMerge]_vars

----------------------------------------------------------------------------
(* Merger claims *)

\* The positions of an event in the log
Positions(log, event) == {i \in 1..Len(log) : log[i] = event}

Happened(event) == Positions(mergeLog, event) # {}

\* Every occurrence of the event before follows an occurrence of the event first.
Precedes(first, later) ==
    \A j \in Positions(mergeLog, later) : \E i \in Positions(mergeLog, first) : i < j

\* C11: with an output file, no skip_confirm and no stdout mode, the prompt
\* comes before the generation and before any opening of the file; after an
\* answer other than y / yes (in any case) nothing is generated or opened
\* and merge is over, after y / yes merge is not cancelled; there is no
\* prompt with skip_confirm, in stdout mode or without an output file.
C11_ConfirmBeforeWrite ==
    LET asks == Given(mergeArgs.output_file) /\ ~mergeArgs.skip_confirm /\ ~mergeArgs.to_stdout
        yes == LowerText(mergeAnswer) \in {<<"y">>, <<"y", "e", "s">>}
    IN  /\ asks => /\ Precedes("prompt", "generate")
                   /\ Precedes("prompt", "open")
                   /\ Precedes("prompt", "print content")
        /\ (Happened("prompt") /\ ~yes) =>
               /\ ~Happened("generate") /\ ~Happened("open") /\ ~Happened("write")
               /\ mergePc = "done"
        /\ (Happened("prompt") /\ yes) => ~Happened("cancelled")
        /\ Happened("prompt") => asks

\* The answer "YES" was given and the file has been written.
C11_Witness ==
    /\ mergeAnswer = <<"Y", "E", "S">>
    /\ mergeLog = <<"scan", "prompt", "generate", "ok", "open", "write", "report done">>

\* C12: in display-only mode (a view requested, no output file, no stdout
\* mode) merge does nothing but scan, build and show views, the scan first;
\* no prompt, no generation, no opening or writing of a file; it ends
\* without an exit status.
C12_DisplayOnly ==
    ((mergeArgs.show_tree \/ mergeArgs.show_list \/ mergeArgs.show_stats)
        /\ mergeArgs.output_file \in {"None", ""} /\ ~mergeArgs.to_stdout) =>
        /\ Range(mergeLog) \subseteq {"scan", "build tree", "build list",
                                      "show tree", "show list", "show stats"}
        /\ mergeLog # <<>> => mergeLog[1] = "scan"
        /\ mergePc \in {"start", "scanned", "built", "done"}
        /\ mergeExit = <<>>
        /\ mergePc = "done" =>
              /\ mergeArgs.show_tree => Happened("show tree")
              /\ mergeArgs.show_stats => Happened("show stats")

\* Display-only with the statistics alone has run to its end.
C12_Witness ==
    /\ mergeArgs.show_stats /\ ~mergeArgs.show_tree /\ ~mergeArgs.show_list
    /\ mergeArgs.output_file = "None"
    /\ mergePc = "done"
    /\ mergeLog = <<"scan", "show stats">>

\* C13: when opening or writing the output file raises PermissionError or
\* another OSError, merge reports the error, exits with a non-zero status
\* and has opened the file once only.
C13_WriteFailureFatal ==
    (Happened("PermissionError at open") \/ Happened("OSError at open")
        \/ Happened("OSError at write")) =>
        /\ mergeLog[Len(mergeLog)] = "report error"
        /\ mergePc = "exited"
        /\ mergeExit # <<>> /\ mergeExit[1] # 0
        /\ Cardinality(Positions(mergeLog, "open")) = 1
        /\ ~Happened("report done")

\* Writing failed after the file was opened.
C13_Witness ==
    /\ Happened("OSError at write")
    /\ mergePc = "exited"
    /\ mergeExit = <<FailureStatus>>

----------------------------------------------------------------------------
(* TextGenerator.generate: the file bodies *)

\* ''.join
RECURSIVE Flatten(_)
Flatten(parts) == IF parts = <<>> THEN <<>> ELSE parts[1] \o Flatten(Tail(parts))

\* generate's target_dir
TargetDir == <<".">>

\* '/' + os.path.relpath(file_path, target_dir), for a path beneath target_dir
DisplayPath(file_path) == <<"/">> \o SubSeq(file_path, Len(TargetDir) + 2, Len(file_path))

\* f"--- {display_path} ---\n"
Header(file_path) ==
    <<"-", "-", "-", " ">> \o DisplayPath(file_path) \o <<" ", "-", "-", "-", "\n">>

\* The message of the exception open raises for a file that is gone
NoSuchFile(file_path) ==
    <<"[", "E", "r", "r", "n", "o", " ", "2", "]", " ", "N", "o", " ", "s", "u", "c", "h", " ", "f", "i", "l", "e", " ", "o", "r", " ", "d", "i", "r", "e", "c", "t", "o", "r", "y", ":", " ", "'">> \o file_path \o <<"'">>

\* The text put in place of a file that cannot be read
ErrorPlaceholder(read, file_path) ==
    CASE read = "UnicodeDecodeError" ->
           <<"[", "E", "r", "r", "o", "r", ":", " ", "C", "a", "n", "n", "o", "t", " ", "d", "e", "c", "o", "d", "e", " ", "f", "i", "l", "e", " ">> \o file_path \o <<" ", "a", "s", " ", "t", "e", "x", "t", "]", "\n", "\n">>
      [] read = "PermissionError" ->
           <<"[", "E", "r", "r", "o", "r", ":", " ", "P", "e", "r", "m", "i", "s", "s", "i", "o", "n", " ", "d", "e", "n", "i", "e", "d", " ", "r", "e", "a", "d", "i", "n", "g", " ">> \o file_path \o <<"]", "\n", "\n">>
      [] OTHER ->
           <<"[", "E", "r", "r", "o", "r", " ", "r", "e", "a", "d", "i", "n", "g", " ">> \o file_path \o <<":", " ">> \o NoSuchFile(file_path) \o <<"]", "\n", "\n">>

\* The file's text sanitized first and windowed afterwards
ProcessContentSanitizeFirst(text, head, tail, auto) ==
    {[r EXCEPT !.text = WindowText(r.text, head, tail)] : r \in SanitizeResults(text, auto)}

\* What the loop makes of a file's text: the window is taken, then sanitized.
ProcessContent(text, head, tail, auto) == SanitizeResults(WindowText(text, head, tail), auto)

\* all_stats with every count overwritten by the file's
AccumulateOverwriting(all, st) ==
    [k \in DOMAIN all \cup DOMAIN st |-> IF k \in DOMAIN st THEN st[k] ELSE all[k]]

\* all_stats[key] = all_stats.get(key, 0) + count, for every key of the file's stats
Accumulate(all, st) ==
    [k \in DOMAIN all \cup DOMAIN st |-> StatOf(all, k) + StatOf(st, k)]

\* The parts of a file, with nothing for a file that cannot be read
FileBlockSkippingUnreadable(file, body) ==
    IF file.read = "ok" THEN <<Header(file.path), body, <<"\n", "\n">>>> ELSE <<>>

\* The parts one record adds to content_parts
FileBlock(file, body) ==
    IF file.read = "ok" THEN <<Header(file.path), body, <<"\n", "\n">>>>
    ELSE <<Header(file.path), ErrorPlaceholder(file.read, file.path)>>

\* One turn of the loop over target_files.  In one process the sanitizer
\* makes the same of the same text each time.
GenerateFile ==
    /\ ~genDone
    /\ genMerge
    /\ genIndex < Len(genFiles)
    /\ LET file == genFiles[genIndex + 1]
       IN  IF file.read = "ok"
           THEN \E r \in ProcessContent(file.text, genHead, genTail, genSanitize) :
                  /\ file.text \in DOMAIN genChoice => r = genChoice[file.text]
                  /\ genChoice' = (file.text :> r) @@ genChoice
                  /\ genStats' = Accumulate(genStats, r.stats)
                  /\ genParts' = genParts \o FileBlock(file, r.text)
                  /\ genWarnings' = genWarnings
           ELSE /\ genParts' = genParts \o FileBlock(file, <<>>)
                /\ genWarnings' = Append(genWarnings, file.path)
                /\ UNCHANGED <<genStats, genChoice>>
    /\ genIndex' = genIndex + 1
    /\ UNCHANGED <<genFiles, genHead, genTail, genSanitize, genMerge, genOutput, genDone>>
    /\ UNCHANGED exceptGen

\* generate returns the joined parts: after the loop over the records, or at
\* once when include_merge is off.
GenerateReturn ==
    /\ ~genDone
    /\ genMerge => genIndex = Len(genFiles)
    /\ genOutput' = Flatten(genParts)
    /\ genDone' = TRUE
    /\ UNCHANGED <<genFiles, genHead, genTail, genSanitize, genMerge, genIndex, genParts, genStats,
                   genChoice, genWarnings>>
    /\ UNCHANGED exceptGen

\* The number of records of a run, and the largest head / tail
MaxFiles == 2

MaxWindow == 1

\* The files there are: their paths, texts, and what opening and reading does
FileA == [path |-> <<".", "/", "a", ".", "t", "x", "t">>, text |-> Hello \o LineFeed \o PublicIP, read |-> "ok"]

FileB == [path |-> <<".", "/", "b", ".", "t", "x", "t">>, text |-> PwdLine \o LineFeed \o Hello, read |-> "ok"]

FileC ==
    [path |-> <<".", "/", "c", ".", "t", "x", "t">>, text |-> PublicIP \o <<" ">> \o LongerIP \o LineFeed \o Email,
     read |-> "ok"]

FileD == [path |-> <<".", "/", "d", ".", "t", "x", "t">>, text |-> FileC.text, read |-> "ok"]

FileE == [path |-> <<".", "/", "e", ".", "t", "x", "t">>, text |-> <<>>, read |-> "PermissionError"]

FileF == [path |-> <<".", "/", "f", ".", "t", "x", "t">>, text |-> <<>>, read |-> "FileNotFoundError"]

GenFileSystem == {FileA, FileB, FileC, FileD, FileE, FileF}

\* The lists of up to MaxFiles different files
FileLists ==
    {fl \in UNION {[1..n -> GenFileSystem] : n \in 0..MaxFiles} :
        \A i, j \in 1..Len(fl) : i # j => fl[i] # fl[j]}

WindowLimits == {<<>>} \cup {<<n>> : n \in 0..MaxWindow}

\* The calls main makes: it refuses a head and a tail that are both non-zero.
InitGenerate ==
    /\ genFiles \in FileLists
    /\ genHead \in WindowLimits
    /\ genTail \in WindowLimits
    /\ ~(Truthy(genHead) /\ Truthy(genTail))
    /\ genSanitize \in BOOLEAN
    /\ genMerge \in BOOLEAN
    /\ genIndex = 0
    /\ genParts = <<>>
    /\ genStats = <<>>
    /\ genChoice = <<>>
    /\ genWarnings = <<>>
    /\ genOutput = <<>>
    /\ genDone = FALSE
    /\ ScanIdle
    /\ SanIdle
    /\ WinIdle
    /\ CliIdle
    /\ MergeIdle
    /\ InfoIdle
    /\ ProbeIdle
    /\ RescanIdle
    /\ AutoIdle

NextGenerate == GenerateFile \/ GenerateReturn

SpecGenerate == InitGenerate /\ [][NextGenerate]_vars

\* C29: the output file is opened only after the scan, the reading of the
\* source files and the assembly of the content, at most once in a run, and
\* its file object is closed wherever the run ends; each time the run looks
\* at the source files the output file still holds its previous content.
C29_DestinationOpenedLast ==
    /\ \A i \in 1..Len(destSeen) : destSeen[i] = "previous"
    /\ Cardinality(Positions(mergeLog, "open")) <= 1
    /\ Precedes("scan", "open")
    /\ Precedes("generate", "open")
    /\ Happened("open") => mergePc \in {"done", "exited", "crashed"}
    /\ destState # "previous" => Happened("open") /\ Len(destSeen) = 2
    /\ destHandle # "none" => Happened("open")
    /\ destHandle # "open"

\* C29's case: the run scanned, read the files, opened the output file and
\* failed while writing: it has left with the file cut short and closed.
C29_Witness ==
    /\ mergePc = "exited"
    /\ Happened("OSError at write")
    /\ destSeen = <<"previous", "previous">>
    /\ destState = "truncated"
    /\ destHandle = "closed"

----------------------------------------------------------------------------
(* Generator claims *)

\* The records handled so far whose file could be read
Handled == {genFiles[i] : i \in 1..genIndex}

HandledOk == {f \in Handled : f.read = "ok"}

\* What the sanitizer returned for the file
ResultOf(file) == genChoice[file.text]

\* The header of the record's block
ExpectedHeader(file) ==
    <<"-", "-", "-", " ", "/">> \o SubSeq(file.path, 3, Len(file.path)) \o <<" ", "-", "-", "-", "\n">>

\* Whether the part is an error text in square brackets that names the path
IsPlaceholderFor(part, file_path) ==
    /\ StartsAt(part, 1, <<"[", "E", "r", "r", "o", "r">>)
    /\ Contains(part, file_path)
    /\ Len(part) >= 3
    /\ SubSeq(part, Len(part) - 2, Len(part)) = <<"]", "\n", "\n">>

\* Whether the parts are the blocks of the records from the i-th to the
\* last one handled: a header, then the sanitized text and two line feeds,
\* or a placeholder.
RECURSIVE PartsMatch(_, _)
PartsMatch(parts, i) ==
    IF i > genIndex THEN parts = <<>>
    ELSE LET f == genFiles[i]
         IN  IF f.read = "ok"
             THEN /\ Len(parts) >= 3
                  /\ parts[1] = ExpectedHeader(f)
                  /\ parts[2] = ResultOf(f).text
                  /\ parts[3] = <<"\n", "\n">>
                  /\ PartsMatch(SubSeq(parts, 4, Len(parts)), i + 1)
             ELSE /\ Len(parts) >= 2
                  /\ parts[1] = ExpectedHeader(f)
                  /\ IsPlaceholderFor(parts[2], f.path)
                  /\ PartsMatch(SubSeq(parts, 3, Len(parts)), i + 1)

\* The sum over a set of files of the counts the sanitizer gave under a label
RECURSIVE SumStats(_, _)
SumStats(files, label) ==
    IF files = {} THEN 0
    ELSE LET f == CHOOSE x \in files : TRUE
         IN  StatOf(ResultOf(f).stats, label) + SumStats(files \ {f}, label)

Labels == DOMAIN genStats \cup UNION {DOMAIN ResultOf(f).stats : f \in HandledOk}

\* C14: the parts are, record by record in list order, one header followed
\* by the file's text or, for a file that cannot be read, by a placeholder
\* that names it; each such file is warned about once; the stats are those
\* of the readable files; generate returns the joined parts.
C14_BlockPerRecord ==
    /\ PartsMatch(genParts, 1)
    /\ genWarnings = [i \in 1..Len(genWarnings) |->
                        SelectSeq([j \in 1..genIndex |-> genFiles[j]],
                                  LAMBDA f : f.read # "ok")[i].path]
    /\ Len(genWarnings) = Cardinality(Handled \ HandledOk)
    /\ \A label \in Labels : StatOf(genStats, label) = SumStats(HandledOk, label)
    /\ genDone /\ ~GenIdle => /\ genMerge => genIndex = Len(genFiles)
                              /\ genOutput = Flatten(genParts)

\* An unreadable file between two readable ones, sanitizing on.
C14_Witness ==
    /\ genDone
    /\ genSanitize
    /\ Len(genFiles) = 2
    /\ genFiles[1] = FileE
    /\ genFiles[2] = FileA
    /\ genWarnings = <<FileE.path>>
    /\ StatOf(genStats, "IP addresses") = 1

\* C15: under every label the run's stats hold the sum of the counts of the
\* files handled, whatever the order of the list (the sum is taken over the
\* set of files); no label is lost and no count decreases.
C15_StatsAreSums ==
    /\ [](\A label \in Labels : StatOf(genStats, label) = SumStats(HandledOk, label))
    /\ [](\A label \in DOMAIN genStats : genStats[label] > 0)
    /\ [][/\ DOMAIN genStats \subseteq DOMAIN genStats'
          /\ \A label \in DOMAIN genStats : genStats'[label] >= genStats[label]]_vars

\* Two files with IP addresses: one in the first, two in the second.
C15_Witness ==
    /\ genDone
    /\ genSanitize
    /\ genHead = <<>> /\ genTail = <<>>
    /\ genFiles = <<FileC, FileA>>
    /\ StatOf(genStats, "IP addresses") = 3
    /\ StatOf(genStats, "Email addresses") = 1

\* Whether the sanitizer finds nothing in the file's window
WindowClean(file) ==
    \A r \in SanitizeResults(WindowText(file.text, genHead, genTail), TRUE) : r.stats = <<>>

\* C16: what is sanitized is the window of the file, so the stats hold
\* nothing when no window of a handled file holds a sensitive value, and
\* the text and counts of a file are those of its sanitized window.
C16_WindowThenSanitize ==
    /\ \A f \in HandledOk :
          ResultOf(f) \in SanitizeResults(WindowText(f.text, genHead, genTail), genSanitize)
    /\ (\A f \in HandledOk : WindowClean(f)) => genStats = <<>>

\* The address on the second line of the file is outside the head window.
C16_Witness ==
    /\ genDone
    /\ genSanitize
    /\ genHead = <<1>>
    /\ genFiles = <<FileA>>
    /\ genStats = <<>>
    /\ \E r \in SanitizeResults(FileA.text, TRUE) : StatOf(r.stats, "IP addresses") = 1
    /\ ~Contains(genOutput, PublicIP)

----------------------------------------------------------------------------
(* Custom rule claims *)

\* The number of matches of the rule's pattern in the text: those of the
\* regular expression when re accepts the pattern, else its occurrences as
\* a plain string.
RuleMatches(rule, text) ==
    IF Compiles(rule.pattern)
    THEN CountMatches(CustomMatchEnds(rule.pattern, text), 1)
    ELSE Count(text, rule.pattern)

\* C17: a custom rule whose pattern has matches in the text records their
\* number under 'Custom: <pattern>' and leaves none of them in the text
\* (stated for a single rule whose replacement holds no match, the
\* automatic detectors off).
C17_CustomRuleApplied ==
    (sanDone /\ ~autoOn /\ Len(customRules) = 1) =>
        LET rule == customRules[1]
            n == RuleMatches(rule, content)
        IN  /\ n > 0 => /\ CustomLabel(rule.pattern) \in DOMAIN sanStats
                        /\ sanStats[CustomLabel(rule.pattern)] = n
                        /\ (RuleMatches(rule, rule.replacement) = 0
                              => RuleMatches(rule, sanText) = 0)
            /\ n = 0 => sanStats = <<>> /\ sanText = content

\* The digits matched by \d+ are left in place and nothing is counted.
C17_MatchesNotSubstituted ==
    /\ sanDone
    /\ content = <<"h", "e", "l", "l", "o", " ", "1", "2", "3">>
    /\ customRules = <<[pattern |-> DigitsPattern, replacement |-> BackrefTemplate]>>
    /\ sanText = content
    /\ sanStats = <<>>

----------------------------------------------------------------------------
(* Configuration claims *)

\* The value the configuration file gives the option, as args holds it
ConfigValue(cfg, option) ==
    CASE option \in {"glob", "exclude"} ->
           (IF cfg[option].kind = "str" THEN <<<<<<"*", ".", "p", "y">>, <<"*", ".", "m", "d">>>>>>
            ELSE IF cfg[option].kind = "list" THEN <<cfg[option].items>>
            ELSE <<>>)
      [] OTHER -> cfg[ConfigKey(option)]

\* The options the claim lists
ValueOptions ==
    {"target_dir", "output_file", "format", "head", "tail", "ignore_file", "replace_file",
     "glob", "exclude"}

\* C18: after merge_with_args every option given on the command line has
\* the value given there, whatever the configuration file holds; an option
\* that was not given has the configuration file's value when it has one.
C18_CommandLineWins ==
    pc = "merged" =>
        \A o \in ValueOptions :
            /\ OnCommandLine(argv, o) => args[o] = argv[o]
            /\ (~OnCommandLine(argv, o) /\ InConfig(config, o)) =>
                   args[o] = ConfigValue(config, o)

\* -f text on the command line, format: md in the configuration file: the
\* merged format is md.
C18_ExplicitTextOverridden ==
    /\ pc = "merged"
    /\ argv.format = "text"
    /\ config.format = "md"
    /\ args.format = "md"

\* Whether an exclude pattern of the run is malformed
MalformedExclude ==
    /\ args.exclude # <<>>
    /\ \E i \in 1..Len(args.exclude[1]) :
          LET pattern == args.exclude[1][i]
          IN  pattern = <<"!">> \/ pattern[Len(pattern)] = "\\"

\* C20: a malformed entry among the exclude patterns does not end the run:
\* the filters get built, and a run that passed the checks goes on to the
\* scan without an exit status.
C20_MalformedExcludeTolerated ==
    MalformedExclude =>
        /\ pc # "crashed"
        /\ pc \in {"ready", "scanning"} => exitStatus = <<>>

\* The run ended while the exclude matcher was built from *.log, ! and tmp/.
C20_Witness ==
    /\ MalformedExclude
    /\ args.exclude = <<BadPatterns>>
    /\ pc = "crashed"
    /\ exitStatus = <<FailureStatus>>
    /\ ~scanStarted

----------------------------------------------------------------------------
(* FileScanner._get_file_info *)

\* sum(1 for _ in f): the lines of a text, the last one with or without
\* its line feed
CountLines(text) ==
    Cardinality({i \in 1..Len(text) : text[i] = "\n"})
        + (IF text # <<>> /\ text[Len(text)] # "\n" THEN 1 ELSE 0)

\* _get_file_info: size and lines start at 0; the size is stored as soon as
\* os.path.getsize has returned, the lines once the file has been read;
\* whatever is raised ends the try block and is dropped.
get_file_info(file) ==
    LET info == [path |-> file.path, size |-> 0, lines |-> 0]
    IN  IF file.stat # "ok" THEN info
        ELSE IF file.open # "ok" THEN [info EXCEPT !.size = file.size]
        ELSE [info EXCEPT !.size = file.size, !.lines = CountLines(file.text)]

\* scan: the record of the next accepted file is appended.
GetFileInfo ==
    /\ infoIndex < Len(infoFiles)
    /\ infoRecords' = Append(infoRecords, get_file_info(infoFiles[infoIndex + 1]))
    /\ infoIndex' = infoIndex + 1
    /\ UNCHANGED infoFiles
    /\ UNCHANGED exceptInfo

\* The most files of a scan
MaxInfoFiles == 2

\* The texts of the files, their size being their length
InfoTexts == {<<>>, <<"x">>, <<"a", "\n", "b", "\n", "c", "\n">>}

\* What os.path.getsize and open / read may do
StatOutcomes == {"ok", "FileNotFoundError"}

OpenOutcomes == {"ok", "PermissionError", "IsADirectoryError"}

\* The files: two paths, each with any text and any pair of outcomes.  A
\* file that stat does not find cannot be opened either.
InfoFileSet ==
    {f \in [path : {"a.txt", "b.txt"}, text : InfoTexts,
            stat : StatOutcomes, open : OpenOutcomes] : f.stat # "ok" => f.open # "ok"}

\* os.path.getsize of a file of ASCII text
SizeOf(text) == Len(text)

InitInfo ==
    /\ infoFiles \in {fl \in UNION {[1..n -> {[path |-> f.path, text |-> f.text,
                                                size |-> SizeOf(f.text), stat |-> f.stat,
                                                open |-> f.open] : f \in InfoFileSet}] :
                                       n \in 0..MaxInfoFiles} :
                        \A i, j \in 1..Len(fl) : i # j => fl[i].path # fl[j].path}
    /\ infoIndex = 0
    /\ infoRecords = <<>>
    /\ ScanIdle
    /\ SanIdle
    /\ WinIdle
    /\ CliIdle
    /\ MergeIdle
    /\ GenIdle
    /\ ProbeIdle
    /\ RescanIdle
    /\ AutoIdle

NextInfo == GetFileInfo

SpecInfo == InitInfo /\ [][NextInfo]_vars

----------------------------------------------------------------------------
(* File record claims *)

\* C19: _get_file_info returns a record for every file it is called for,
\* and when getting the size or reading the file fails the record has
\* size 0 and lines 0.
C19_FailureGivesZeroes ==
    /\ Len(infoRecords) = infoIndex
    /\ \A i \in 1..infoIndex :
          /\ infoRecords[i].path = infoFiles[i].path
          /\ (infoFiles[i].stat # "ok" \/ infoFiles[i].open # "ok") =>
                 infoRecords[i].size = 0 /\ infoRecords[i].lines = 0

\* A file of six bytes that may not be read has a record of size 6, and the
\* scan has gone on to the next file.
C19_SizeKept ==
    /\ infoIndex = 2
    /\ infoFiles[1].open = "PermissionError"
    /\ infoFiles[1].size = 6
    /\ infoRecords[1].size = 6
    /\ infoRecords[1].lines = 0
    /\ infoRecords[2].lines = 3

----------------------------------------------------------------------------
(* The matchers asked about one path, as the scanner, the tree view or any  *)
(* other caller asks them                                                   *)

\* The paths a matcher is asked about: those of the tree and those on
\* another drive.
ProbePaths == Universe \cup OtherDrive

\* filter_obj.should_include(path), for either matcher
ShouldInclude ==
    /\ asked = <<>>
    /\ \E filter \in {"GlobFilter", "IgnoreFilter"}, p \in ProbePaths :
          /\ p \in Universe => fs[p] # "none"
          /\ asked' = <<[filter |-> filter, path |-> p,
                         verdict |-> should_include(filter, p)]>>
    /\ UNCHANGED exceptProbe

InitProbe ==
    /\ fs \in Trees
    /\ includePatterns \in PatternSets(IncludeVocabulary)
    /\ excludePatterns \in PatternSets(ExcludeVocabulary)
    /\ filters = <<"GlobFilter", "IgnoreFilter">>
    /\ stats = InitialStats
    /\ scanResult = <<>>
    /\ scanEvaluated = {}
    /\ scanCalls = 0
    /\ treeLines = <<>>
    /\ treeEvaluated = {}
    /\ treeBuilt = FALSE
    /\ asked = <<>>
    /\ SanIdle
    /\ WinIdle
    /\ CliIdle
    /\ MergeIdle
    /\ GenIdle
    /\ InfoIdle
    /\ RescanIdle
    /\ AutoIdle

NextProbe == ShouldInclude

SpecProbe == InitProbe /\ [][NextProbe]_vars

----------------------------------------------------------------------------
(* Matcher claims *)

\* C21: a path that cannot be made relative to the base directory is
\* dropped by both matchers: GlobFilter.should_include returns false for it
\* and IgnoreFilter.should_include returns false for it.
C21_UnrelatableDropped ==
    \A i \in 1..Len(asked) :
        RelpathRaises(asked[i].path) => asked[i].verdict = FALSE

\* The exclude matcher, holding "*.log", asked about b.log on another drive,
\* answers that the file is to be included.
C21_ForeignFileKept ==
    /\ asked # <<>>
    /\ asked[1].filter = "IgnoreFilter"
    /\ asked[1].path = <<"D:", "b.log">>
    /\ \E pat \in excludePatterns : pat.text = "*.log"
    /\ asked[1].verdict = TRUE

----------------------------------------------------------------------------
(* Scan statistics claims *)

\* C22: after a scan get_stats() contains the counter non_text besides
\* scanned, glob_filtered, ignored and included, and for a scan of N plain
\* files with no filters it reports scanned = N, included = N,
\* glob_filtered = 0, ignored = 0 and non_text = 0.
C22_NonTextReported ==
    scanCalls > 0 =>
        /\ {"scanned", "glob_filtered", "ignored", "included", "non_text"}
              \subseteq DOMAIN stats
        /\ filters = <<>> =>
              /\ stats.scanned = Cardinality(PlainVisited)
              /\ stats.included = Cardinality(PlainVisited)
              /\ stats.glob_filtered = 0
              /\ stats.ignored = 0
              /\ stats.non_text = 0

\* A scan of three plain files with no filters has counted them, and the
\* scanner's counters are the four that scan starts from.
C22_FourCounters ==
    /\ scanCalls > 0
    /\ filters = <<>>
    /\ Cardinality(PlainVisited) = 3
    /\ \A p \in Universe : ~islink(p)
    /\ DOMAIN stats = {"scanned", "glob_filtered", "ignored", "included"}
    /\ stats.scanned = 3
    /\ stats.included = 3
    /\ stats.glob_filtered = 0
    /\ stats.ignored = 0


\* The directories a scan takes out of its walk: with an exclude matcher
\* those it matches first on their way from the root, else none.
Pruned == IF HasExclude THEN PrunedDirs ELSE {}

\* C27: after any scan included is the length of the returned list and
\* scanned = included + glob_filtered + (ignored - D), D the number of
\* directories pruned during the walk: each adds exactly 1 to ignored, and
\* the files beneath a pruned directory add nothing to any counter.
C27_CountersAddUp ==
    scanCalls > 0 =>
        LET D == Cardinality(Pruned)
            fileIgnored == stats.scanned - stats.included - stats.glob_filtered
        IN  /\ stats.included = Len(scanResult)
            /\ stats.scanned = stats.included + stats.glob_filtered + (stats.ignored - D)
            /\ stats.scanned = Cardinality(PlainVisited)
            /\ fileIgnored >= 0
            /\ \A p \in Universe :
                  (\E d \in Pruned : d \in ProperPrefixes(p)) =>
                      p \notin scanEvaluated /\ p \notin Range(scanResult)

\* C27's case: a scan that pruned a directory holding files and counted
\* files as ignored, filtered by the include matcher and included.
C27_Witness ==
    /\ scanCalls > 0
    /\ Cardinality(Pruned) = 1
    /\ \E p \in Universe : fs[p] = "file" /\ (\E d \in Pruned : d \in ProperPrefixes(p))
    /\ stats.ignored >= 2
    /\ stats.glob_filtered >= 1
    /\ stats.included >= 1

\* C30: for a tree without symbolic links and a scanner that has the
\* include and the exclude matcher of the tree view, the files the tree
\* shows are the scan's files minus those failing the text probe, and the
\* directories it shows are directories the scan descends into.
C30_TreeRefinesScan ==
    (/\ scanCalls > 0
     /\ treeBuilt
     /\ HasInclude /\ HasExclude
     /\ \A p \in Universe : ~islink(p)) =>
        LET shownFiles == {p \in TreePaths : ~isdir(p)}
            shownDirs == {p \in TreePaths : isdir(p)}
            descended == Range(ScanRun.walked)
        IN  /\ shownFiles \subseteq Range(scanResult)
            /\ shownFiles = {p \in Range(scanResult) : IsTextFile(p)}
            /\ shownDirs \subseteq descended
            /\ \A i \in 2..Len(treeLines) :
                  (Len(treeLines[i].text) > 0 /\ treeLines[i].text[Len(treeLines[i].text)] = "/")
                      <=> treeLines[i].path \in shownDirs

\* C30's case: a tree with a binary file in the scan's result, something
\* excluded and a directory shown with a file in it, scanned and rendered.
C30_Witness ==
    /\ scanCalls > 0 /\ treeBuilt
    /\ HasInclude /\ HasExclude
    /\ \A p \in Universe : ~islink(p)
    /\ \E p \in Range(scanResult) : ~IsTextFile(p)
    /\ \E p \in TreePaths : Len(p) > 1 /\ ~isdir(p)
    /\ stats.ignored > 0

----------------------------------------------------------------------------
(* One scanner scanned again and again, its statistics read in between     *)

\* Pattern sets of at most one pattern.
AtMostOne(vocabulary) == {P \in SUBSET vocabulary : Cardinality(P) <= 1}

\* get_stats returning the scanner's own dictionary.
StatsItself == [scan |-> scanCalls, same |-> TRUE, changed |-> FALSE, value |-> stats]

\* What get_stats returns: self.stats.copy(), a dictionary of its own with the
\* counters' values of the moment.
StatsCopy == [scan |-> scanCalls, same |-> FALSE, changed |-> FALSE, value |-> stats]

\* stats = scanner.get_stats(), once after a scan
GetStats ==
    /\ scanCalls > 0
    /\ IF returned = <<>> THEN TRUE ELSE returned[Len(returned)].scan < scanCalls
    /\ returned' = Append(returned, StatsCopy)
    /\ UNCHANGED <<scanVars, sanVars, winVars, cliVars, mergeVars, genVars, infoVars,
                   probeVars, autoVars>>

\* The caller assigns to an entry of a dictionary it was given:
\* d[k] = d[k] + 1.  The scanner's counters change with it only where the
\* dictionary is the scanner's own.
MutateReturned ==
    /\ \E i \in 1..Len(returned), k \in {"scanned", "included"} :
          /\ ~returned[i].changed
          /\ returned' = [returned EXCEPT ![i].value[k] = @ + 1, ![i].changed = TRUE]
          /\ stats' = IF returned[i].same
                      THEN [stats EXCEPT ![k] = @ + 1]
                      ELSE stats
    /\ UNCHANGED <<fs, includePatterns, excludePatterns, filters, scanResult,
                   scanEvaluated, scanCalls, treeLines, treeEvaluated, treeBuilt>>
    /\ UNCHANGED <<sanVars, winVars, cliVars, mergeVars, genVars, infoVars, probeVars,
                   autoVars>>

\* scanner.scan(target_dir) again: self.stats is a new dictionary, and those
\* returned before are no longer the scanner's.
Rescan ==
    /\ ScanCall
    /\ returned' = [i \in 1..Len(returned) |-> [returned[i] EXCEPT !.same = FALSE]]
    /\ UNCHANGED <<sanVars, winVars, cliVars, mergeVars, genVars, infoVars, probeVars,
                   autoVars>>

InitRescan ==
    /\ fs \in Trees
    /\ includePatterns \in AtMostOne(IncludeVocabulary)
    /\ excludePatterns \in AtMostOne(ExcludeVocabulary)
    /\ filters \in FilterLists
    /\ stats = InitialStats
    /\ scanResult = <<>>
    /\ scanEvaluated = {}
    /\ scanCalls = 0
    /\ treeLines = <<>>
    /\ treeEvaluated = {}
    /\ treeBuilt = FALSE
    /\ returned = <<>>
    /\ SanIdle
    /\ WinIdle
    /\ CliIdle
    /\ MergeIdle
    /\ GenIdle
    /\ InfoIdle
    /\ ProbeIdle
    /\ AutoIdle

NextRescan == Rescan \/ GetStats \/ MutateReturned

SpecRescan == InitRescan /\ [][NextRescan]_vars

\* C23: after any sequence of scans of one scanner the counters are those of
\* the most recent scan alone: every plain file visited counted once in
\* scanned, included the length of the list returned.  The statistics read
\* after two scans of the unchanged tree are equal, and assigning to a
\* dictionary get_stats returned leaves the scanner's counters as they were.
C23_LastScanOnly ==
    /\ scanCalls > 0 =>
          /\ stats.scanned = Cardinality(PlainVisited)
          /\ stats.included = Len(scanResult)
          /\ stats.scanned >= stats.included + stats.glob_filtered
    /\ \A i, j \in 1..Len(returned) :
          (~returned[i].changed /\ ~returned[j].changed) =>
              returned[i].value = returned[j].value
    /\ \A i \in 1..Len(returned) :
          (~returned[i].changed /\ returned[i].scan = scanCalls) =>
              returned[i].value = stats

\* C23's case: files were counted, the statistics were read after the first
\* scan and again after the second, and the first dictionary was assigned to.
C23_Witness ==
    /\ scanCalls = 2
    /\ Len(returned) = 2
    /\ returned[1].scan = 1 /\ returned[2].scan = 2
    /\ returned[1].changed /\ ~returned[2].changed
    /\ stats.scanned >= 2 /\ stats.included >= 1 /\ stats.ignored >= 1

----------------------------------------------------------------------------
(* Text rendering claims *)

\* The header the file-bodies section is said to begin with.
FilesHeader ==
    <<"=", "=", "=", " ", "F", "i", "l", "e", "s", " ", "=", "=", "=">>

\* C24: the text rendering has the header '=== Files ===' exactly when the
\* file-bodies section is enabled: with no records and default options
\* generate returns exactly '=== Files ===\n\n' with empty statistics, and
\* with include_merge off the header is absent.
C24_FilesHeader ==
    (genDone /\ ~GenIdle) =>
        /\ genMerge <=> Contains(genOutput, FilesHeader)
        /\ (genMerge /\ genFiles = <<>>) =>
              /\ genOutput = FilesHeader \o <<"\n", "\n">>
              /\ genStats = <<>>

\* generate with no records and default options has returned the empty
\* string and empty statistics.
C24_EmptyOutput ==
    /\ genDone
    /\ genMerge
    /\ genFiles = <<>>
    /\ genHead = <<>> /\ genTail = <<>> /\ ~genSanitize
    /\ genOutput = <<>>
    /\ genStats = <<>>


\* Whether the windowed text ends with the head marker.
HeadMarked ==
    /\ Len(windowed) >= Len(HeadMarker)
    /\ SubSeq(windowed, Len(windowed) - Len(HeadMarker) + 1, Len(windowed)) = HeadMarker

\* C25: in head mode the truncation marker is appended only when the file
\* has more lines than the head limit N; a file with N lines or fewer is
\* emitted unchanged, without a marker.
C25_MarkerOnlyWhenTruncated ==
    (windowDone /\ headLines # <<>> /\ headLines[1] >= 0) =>
        /\ HeadMarked => TotalLines(fileContent) > headLines[1]
        /\ TotalLines(fileContent) <= headLines[1] => windowed = fileContent

\* A file of two lines with a head limit of 2: nothing was cut, and the
\* marker follows the file's text.
C25_WholeFileMarked ==
    /\ windowDone
    /\ headLines = <<2>>
    /\ fileContent = <<"a", "\n", "a">>
    /\ TotalLines(fileContent) = 2
    /\ windowed = fileContent \o HeadMarker

----------------------------------------------------------------------------
(* main deciding on the ignore files, building the exclude matcher and      *)
(* scanning with it                                                         *)

\* IgnoreFilter.VCS_PATTERNS
VCS_PATTERNS ==
    { Pattern(".git/", FALSE, TRUE, <<Lit(".git")>>),
      Pattern(".svn/", FALSE, TRUE, <<Lit(".svn")>>),
      Pattern(".hg/", FALSE, TRUE, <<Lit(".hg")>>),
      Pattern(".bzr/", FALSE, TRUE, <<Lit(".bzr")>>),
      Pattern(".gitignore", FALSE, FALSE, <<Lit(".gitignore")>>),
      Pattern(".gitattributes", FALSE, FALSE, <<Lit(".gitattributes")>>),
      Pattern(".gitmodules", FALSE, FALSE, <<Lit(".gitmodules")>>) }

\* The ignore files that may be named with the option: my.ignore exists and
\* holds "pkg/", gone.ignore does not exist.
IgnoreFileLines(path) ==
    IF path = "my.ignore" THEN {Pattern("pkg/", FALSE, TRUE, <<Lit("pkg")>>)} ELSE {}

\* os.path.exists(args.ignore_file)
IgnoreFileExists(path) == path = "my.ignore"

\* Python's truth value of args.ignore_file: None and "" are false.
PathGiven(path) == path # "None" /\ path # ""

\* IgnoreFilter.auto_detect_ignore_file: the root's .gitignore, if it exists.
AutoDetectIgnoreFile == fs[<<".gitignore">>] # "none"

\* Discovery that goes on although an ignore file is named.
AutoIgnoreDespiteFile(a) == ~a.no_auto_ignore /\ AutoDetectIgnoreFile

\* main: whether the root's .gitignore is discovered and used.
AutoIgnore(a) == ~a.no_auto_ignore /\ ~PathGiven(a.ignore_file) /\ AutoDetectIgnoreFile

\* IgnoreFilter.__init__: the patterns the matcher is compiled from.
CombinedPatterns(patterns, auto_vcs_ignore) ==
    IF auto_vcs_ignore THEN VCS_PATTERNS \cup patterns ELSE patterns

\* main, from the choice of the ignore files to the scanner's filters.
DiscoverIgnore ==
    /\ autoPc = "start"
    /\ LET explicit == IF PathGiven(autoArgs.ignore_file) /\ IgnoreFileExists(autoArgs.ignore_file)
                       THEN IgnoreFileLines(autoArgs.ignore_file) ELSE {}
           auto == AutoIgnore(autoArgs)
           discovered == IF auto THEN gitignoreLines ELSE {}
           ignore_patterns == explicit \cup discovered \cup autoArgs.exclude
       IN  /\ autoVcs' = auto
           /\ excludePatterns' = CombinedPatterns(ignore_patterns, auto)
    /\ filters' = <<"GlobFilter", "IgnoreFilter">>
    /\ autoPc' = "built"
    /\ UNCHANGED <<autoArgs, gitignoreLines>>
    /\ UNCHANGED <<fs, includePatterns, stats, scanResult, scanEvaluated, scanCalls,
                   treeLines, treeEvaluated, treeBuilt>>
    /\ UNCHANGED <<sanVars, winVars, cliVars, mergeVars, genVars, infoVars, probeVars,
                   rescanVars>>

\* Merger.merge calling scanner.scan(target_dir) with these filters.
AutoScan ==
    /\ autoPc = "built"
    /\ ScanCall
    /\ autoPc' = "scanned"
    /\ UNCHANGED <<autoArgs, gitignoreLines, autoVcs>>
    /\ UNCHANGED <<sanVars, winVars, cliVars, mergeVars, genVars, infoVars, probeVars,
                   rescanVars>>

InitAuto ==
    /\ fs \in AllTrees
    /\ includePatterns \in AtMostOne(IncludeVocabulary)
    /\ excludePatterns = {}
    /\ filters = <<>>
    /\ stats = InitialStats
    /\ scanResult = <<>>
    /\ scanEvaluated = {}
    /\ scanCalls = 0
    /\ treeLines = <<>>
    /\ treeEvaluated = {}
    /\ treeBuilt = FALSE
    /\ autoArgs \in [no_auto_ignore : BOOLEAN,
                     ignore_file : {"None", "", "my.ignore", "gone.ignore"},
                     exclude : {P \in AtMostOne(ExcludeVocabulary) :
                                   \A pat \in P : pat.text \in {"sub", "/a.py"}}]
    /\ gitignoreLines \in {P \in AtMostOne(ExcludeVocabulary) :
                              \A pat \in P : pat.text = "*.log"}
    /\ fs[<<".gitignore">>] = "none" => gitignoreLines = {}
    /\ autoVcs = FALSE
    /\ autoPc = "start"
    /\ SanIdle
    /\ WinIdle
    /\ CliIdle
    /\ MergeIdle
    /\ GenIdle
    /\ InfoIdle
    /\ ProbeIdle
    /\ RescanIdle

NextAuto == DiscoverIgnore \/ AutoScan

SpecAuto == InitAuto /\ [][NextAuto]_vars

\* The tree of the scenario: a.py, b.log and a .gitignore.
ScenarioTree ==
    [p \in Universe |-> IF p \in {<<"a.py">>, <<"b.log">>, <<".gitignore">>}
                        THEN "file" ELSE "none"]

\* C26: the VCS patterns are part of the exclude set exactly when automatic
\* discovery is enabled, no ignore file is named (none, or an empty path)
\* and a .gitignore exists in the source root; then the .gitignore's
\* patterns are in the set too, and the tree of a.py, b.log and a
\* .gitignore holding *.log scans to exactly [a.py], b.log and the
\* .gitignore counted in ignored and nothing in glob_filtered.
C26_VcsPatternsWhenDiscovered ==
    autoPc \in {"built", "scanned"} =>
        LET discovered == /\ ~autoArgs.no_auto_ignore
                          /\ autoArgs.ignore_file \in {"None", ""}
                          /\ fs[<<".gitignore">>] = "file"
        IN  /\ discovered <=> VCS_PATTERNS \subseteq excludePatterns
            /\ discovered <=> autoVcs
            /\ ~discovered => VCS_PATTERNS \cap excludePatterns = {}
            /\ discovered => gitignoreLines \subseteq excludePatterns
            /\ (/\ discovered
                /\ autoPc = "scanned"
                /\ fs = ScenarioTree
                /\ gitignoreLines # {}
                /\ autoArgs.exclude = {}
                /\ includePatterns = {}) =>
                   /\ scanResult = << <<"a.py">> >>
                   /\ stats.ignored = 2
                   /\ stats.glob_filtered = 0
                   /\ stats.scanned = 3
                   /\ stats.included = 1

\* C26's case: the scenario's tree scanned after its .gitignore was
\* discovered.
C26_Witness ==
    /\ autoPc = "scanned"
    /\ autoVcs
    /\ fs = ScenarioTree
    /\ gitignoreLines # {}
    /\ autoArgs.exclude = {}
    /\ includePatterns = {}
    /\ scanResult = << <<"a.py">> >>

----------------------------------------------------------------------------
(* Sanitizer determinism *)

\* C28: sanitize is deterministic: for the same content and configuration
\* it returns the same redacted text and the same counts on every call and
\* in every process, whatever the order in which a set of matches is
\* enumerated: what was returned is all that can be returned.
C28_Deterministic ==
    sanDone =>
        \A r \in SanitizeWith(content, autoOn, customRules) :
            r.text = sanText /\ r.stats = sanStats

\* Two addresses in one text: the call returned one redacted text, and
\* another enumeration order of the same set gives a different one.
C28_OrderDecides ==
    /\ sanDone
    /\ autoOn
    /\ content = PublicIP \o <<" ">> \o LongerIP
    /\ StatOf(sanStats, "IP addresses") = 2
    /\ \E r \in SanitizeWith(content, autoOn, customRules) :
          r.text # sanText /\ r.stats = sanStats

====
